---- MODULE Spec2Model ----
(***************************************************************************)
(* Model of the OQuake / STAR integration: the four asynchronous job slots *)
(* of star_sync.c (auth, inventory, send-item, use-item), star_sync_pump,  *)
(* and the pending-ledger reconciliation of oquake_star_integration.c.     *)
(*                                                                         *)
(* Threads: one main thread (the game), which runs the start calls, the    *)
(* pump and the callbacks, and one worker thread per accepted start call.  *)
(* A slot's mutex is the variable lock[s]; a main-thread critical section  *)
(* is one step that needs the mutex free, a worker's final critical        *)
(* section is two steps (enter, store) so that the state in between exists.*)
(***************************************************************************)
EXTENDS Integers, Sequences, FiniteSets, TLC

(* ---------------------------------------------------------------------- *)
(* Bounds of the model                                                     *)
(* ---------------------------------------------------------------------- *)
MaxThreads == 2
MaxStartCalls == 3
MaxSnapshot == 3
MaxEvents == 2
MaxPickups == 3
OQ_MAX_INVENTORY_ITEMS == 2

(* ---------------------------------------------------------------------- *)
(* Program constants                                                       *)
(* ---------------------------------------------------------------------- *)
AUTH_USERNAME_SIZE == 64
AUTH_PASSWORD_SIZE == 64

NULL == "NULL"
Slots == {"auth", "inv", "send", "use"}
STAR_API_SUCCESS == "STAR_API_SUCCESS"
STAR_API_ERROR_NOT_INITIALIZED == "STAR_API_ERROR_NOT_INITIALIZED"
STAR_API_ERROR_NETWORK == "STAR_API_ERROR_NETWORK"
STAR_API_ERROR_API_ERROR == "STAR_API_ERROR_API_ERROR"

Min(a, b) == IF a < b THEN a ELSE b

(* A C string is a sequence of characters; Rep(n, c) is c repeated n times. *)
(* NullStr stands for a null char pointer.                                  *)
Rep(n, c) == [i \in 1..n |-> c]
NullStr == <<NULL>>

(* A star_item_list_t* is the empty sequence (a null pointer) or the       *)
(* one-element sequence holding the list it points to.                     *)
NullList == <<>>
ListAt(l) == <<l>>

(* str_copy: copies at most size-1 characters and terminates the buffer.   *)
(* dst is the buffer's old content, kept only when size is 0.              *)
str_copy(dst, src, size) ==
    IF size = 0 THEN dst
    ELSE IF src = NullStr THEN <<>>
    ELSE SubSeq(src, 1, Min(Len(src), size - 1))

(* ---------------------------------------------------------------------- *)
(* Inputs of the start calls                                               *)
(* ---------------------------------------------------------------------- *)
Credentials ==
    { [username |-> <<"a">>, password |-> <<"p">>],
      [username |-> Rep(AUTH_USERNAME_SIZE, "x"), password |-> Rep(AUTH_PASSWORD_SIZE, "y")] }

(* Completion callbacks a client of the job layer registers: one that      *)
(* fetches the result (as every callback of the game does first), or none  *)
(* (polling).                                                              *)
ClientRegistrations ==
    { [fn |-> NULL, user |-> NULL],
      [fn |-> "on_done_get", user |-> "u1"] }

SendRequests ==
    { [target |-> "bob", item_name |-> "Shells", quantity |-> 0, to_clan |-> 0, item_id |-> NULL],
      [target |-> "clan", item_name |-> "Gold Key", quantity |-> 2, to_clan |-> 7, item_id |-> "id1"] }

UseRequests ==
    { [item_name |-> "Gold Key", context |-> NULL] }

VARIABLES
    (* star_sync.c: the four job slots *)
    in_progress,        \* g_auth_in_progress, g_inv_in_progress, g_send_in_progress, g_use_in_progress
    has_result,         \* g_*_has_result
    on_done,            \* g_*_on_done
    on_done_user,       \* g_*_on_done_user
    req,                \* the stored request arguments of each slot
    res,                \* the stored result of each slot
    lock,               \* g_*_lock: Unlocked, or the number of the worker holding it
    threads,            \* the worker threads ever created, in creation order
    (* oquake_star_integration.c: the game's inventory state *)
    g_local_inventory_entries,  \* the pending ledger: g_local_inventory_entries, g_local_inventory_synced, g_local_inventory_count
    g_star_sync_local_items,    \* the mirror of the ledger handed to the inventory worker
    g_inventory_entries,        \* the display list: g_inventory_entries, g_inventory_count
    g_inventory_status,
    g_star_initialized,
    g_inventory_event_seq,
    (* the main thread *)
    g_inventory_open,          \* the inventory popup is shown
    g_inventory_active_tab,    \* the tab of the inventory popup
    g_inventory_selected_row,  \* the selected grouped row of the tab
    g_inventory_scroll_row,    \* the first grouped row the popup shows
    main_pc,            \* "idle", or where the main thread is inside star_sync_pump
    pump_local,         \* star_sync_pump's locals X_fn, X_ud for the slot it is at
    (* history *)
    n_start,            \* start calls made on each slot
    n_busy,             \* start calls made on each slot while its in_progress was set
    n_event,           \* game events handled: pickups and openings of the inventory popup
    cur,                \* the thread of the last accepted start of each slot (0: none)
    auth_log,           \* the star_sync_auth_start calls: arguments and whether accepted
    authCalls,          \* the arguments of every star_api_authenticate call
    last                \* the last main-thread event

slotVars == <<in_progress, has_result, on_done, on_done_user, req, res, lock>>
histVars == <<n_start, n_busy, n_event, cur, auth_log, authCalls, last>>
mainVars == <<main_pc, pump_local>>
overlayVars == <<g_inventory_open, g_inventory_active_tab, g_inventory_selected_row, g_inventory_scroll_row>>
gameVars == <<g_local_inventory_entries, g_star_sync_local_items, g_inventory_entries,
              g_inventory_status, g_star_initialized, g_inventory_event_seq, overlayVars>>
vars == <<in_progress, has_result, on_done, on_done_user, req, res, lock, threads,
          g_local_inventory_entries, g_star_sync_local_items, g_inventory_entries,
          g_inventory_status, g_star_initialized, g_inventory_event_seq,
          g_inventory_open, g_inventory_active_tab, g_inventory_selected_row,
          g_inventory_scroll_row, main_pc, pump_local, n_start, n_busy, n_event, cur, auth_log, authCalls, last>>

(* ---------------------------------------------------------------------- *)
(* Initial state: the static initialisers of star_sync.c                   *)
(* ---------------------------------------------------------------------- *)
InitReq ==
    [s \in Slots |->
        CASE s = "auth" -> [username_buf |-> <<>>, password_buf |-> <<>>]
          [] s = "inv"  -> [local_items |-> NULL, local_count |-> 0, default_game_source |-> ""]
          [] s = "send" -> [target_buf |-> "", item_name_buf |-> "", item_id_buf |-> "",
                            quantity |-> 1, to_clan |-> 0]
          [] s = "use"  -> [item_name_buf |-> "", context_buf |-> ""]]

InitRes ==
    [s \in Slots |->
        CASE s = "auth" -> [success |-> 0, username_out |-> <<>>, avatar_id_out |-> "", error_msg |-> ""]
          [] s = "inv"  -> [list |-> NullList, result |-> STAR_API_ERROR_NOT_INITIALIZED, error_msg |-> "",
                            add_item_error |-> "", add_item_calls |-> 0]
          [] s = "send" -> [success |-> 0, error_msg |-> ""]
          [] s = "use"  -> [success |-> 0, error_msg |-> ""]]

(* An item name is a base text and, for a per-pickup event name, the number *)
(* printed after it as "_%06u"; NoSuffix: a plain name.                     *)
NoSuffix == -1
PlainName(b) == [base |-> b, suf |-> NoSuffix]
EmptyName == PlainName("")

(* g_inventory_status: the format text and what is printed into it *)
StatusText(text, items, pending, msg) ==
    [text |-> text, items |-> items, pending |-> pending, msg |-> msg]

(* A zero-initialised star_sync_local_item_t *)
ZeroLocalItem == [name |-> EmptyName, quantity |-> 0, synced |-> 0]

(* PTHREAD_MUTEX_INITIALIZER / InitializeCriticalSection: nobody holds the mutex *)
Unlocked == 0

(* X_fn = NULL; X_ud = NULL; *)
NoCallback == [fn |-> NULL, ud |-> NULL]

Init ==
    /\ in_progress = [s \in Slots |-> FALSE]
    /\ has_result = [s \in Slots |-> FALSE]
    /\ on_done = [s \in Slots |-> NULL]
    /\ on_done_user = [s \in Slots |-> NULL]
    /\ req = InitReq
    /\ res = InitRes
    /\ lock = [s \in Slots |-> Unlocked]
    /\ threads = <<>>
    /\ g_local_inventory_entries = <<>>
    /\ g_star_sync_local_items = [i \in 1..OQ_MAX_INVENTORY_ITEMS |-> ZeroLocalItem]
    /\ g_inventory_entries = <<>>
    /\ g_inventory_status = StatusText("STAR inventory unavailable.", 0, 0, "")
    /\ g_star_initialized = 0
    /\ g_inventory_event_seq = 0
    /\ g_inventory_open = FALSE
    /\ g_inventory_active_tab = "OQ_TAB_KEYS"
    /\ g_inventory_selected_row = 0
    /\ g_inventory_scroll_row = 0
    /\ main_pc = "idle"
    /\ pump_local = NoCallback
    /\ n_start = [s \in Slots |-> 0]
    /\ n_busy = [s \in Slots |-> 0]
    /\ n_event = 0
    /\ cur = [s \in Slots |-> 0]
    /\ auth_log = <<>>
    /\ authCalls = <<>>
    /\ last = [op |-> "init"]


(* ---------------------------------------------------------------------- *)
(* star_sync.c: the start calls.  A handler that runs several calls in a   *)
(* row (a callback inside the pump) passes what it has already changed as  *)
(* pre: hr, od, odu, th are has_result, on_done, on_done_user and threads  *)
(* as they stand when the call is made.                                    *)
(* ---------------------------------------------------------------------- *)
PreNow == [hr |-> has_result, od |-> on_done, odu |-> on_done_user, th |-> threads]

TotalStarts == n_start["auth"] + n_start["inv"] + n_start["send"] + n_start["use"]

(* Room, within the bounds, for one more start call on slot s *)
CanCall(s) ==
    /\ TotalStarts < MaxStartCalls
    /\ in_progress[s] \/ Len(threads) < MaxThreads

(* pthread_create / CreateThread: the new worker, about to run its thread   *)
(* proc.  alive: the thread has not ended yet; pushed: the names of the     *)
(* entries for which it has queued a stacking add_item.  heap, refs: the    *)
(* item list star_api_get_inventory allocates for the thread (none, live,  *)
(* freed, freed_twice) and the pointers that hold it: the thread proc's    *)
(* local (local), g_inv_list (slot), the list a get_result caller was      *)
(* handed (caller).                                                        *)
NewThread(s, fn) ==
    [slot |-> s, pc |-> "copy", loc |-> <<>>, fn |-> fn, invoked |-> 0, seen |-> FALSE,
     on_remote |-> {}, alive |-> TRUE, pushed |-> {}, heap |-> "none", refs |-> {}]

(* star_api_free_item_list called on the pointer w, which is then dropped  *)
(* (set to NULL or out of scope)                                           *)
FreeAt(th, w) ==
    [k \in 1..Len(th) |->
        IF w \in th[k].refs
        THEN [th[k] EXCEPT !.heap = IF @ = "live" THEN "freed" ELSE "freed_twice",
                           !.refs = @ \ {w}]
        ELSE th[k]]

(* star_sync_inventory_get_result, lines 889-893: *list_out = g_inv_list;  *)
(* g_inv_list = NULL                                                       *)
TakeList(th) ==
    [k \in 1..Len(th) |->
        IF "slot" \in th[k].refs
        THEN [th[k] EXCEPT !.refs = (@ \ {"slot"}) \cup {"caller"}]
        ELSE th[k]]

(* inventory_thread_proc, lines 783-785: if (g_inv_list) free it;          *)
(* g_inv_list = list; the thread proc returns                              *)
StoreList(th, j) ==
    IF th[j].slot # "inv" THEN th
    ELSE [FreeAt(th, "slot") EXCEPT
            ![j].refs = IF "local" \in th[j].refs THEN (@ \ {"local"}) \cup {"slot"} ELSE @]

(* a caller of star_sync_inventory_get_result that was handed a list and   *)
(* frees it                                                                *)
GetAndFree(th, s, taken) ==
    IF s = "inv" /\ taken THEN FreeAt(TakeList(th), "caller") ELSE th

OrEmpty(p) == IF p = NULL THEN "" ELSE p

(* a start call that lacks the busy check *)
StartAcceptsAlways(s) == TRUE

(* if (g_X_in_progress) { unlock; return; } *)
StartAccepts(s) == ~in_progress[s]

(* a start that leaves has_result as it finds it *)
StartKeepsResult(hr, s) == hr

(* g_X_has_result = 0; in an accepted start *)
StartClearsResult(hr, s) == [hr EXCEPT ![s] = FALSE]

(* What every start call does to the slot besides storing its arguments *)
StartCommon(pre, s, fn, ud) ==
    /\ n_start' = [n_start EXCEPT ![s] = @ + 1]
    /\ n_busy' = [n_busy EXCEPT ![s] = @ + (IF in_progress[s] THEN 1 ELSE 0)]
    /\ IF StartAccepts(s)
       THEN /\ has_result' = StartClearsResult(pre.hr, s)
            /\ on_done' = [pre.od EXCEPT ![s] = fn]
            /\ on_done_user' = [pre.odu EXCEPT ![s] = ud]
            /\ in_progress' = [in_progress EXCEPT ![s] = TRUE]
            /\ threads' = Append(IF s = "inv" THEN FreeAt(pre.th, "slot") ELSE pre.th,
                                 NewThread(s, fn))
            /\ cur' = [cur EXCEPT ![s] = Len(pre.th) + 1]
       ELSE /\ has_result' = pre.hr
            /\ on_done' = pre.od
            /\ on_done_user' = pre.odu
            /\ threads' = pre.th
            /\ UNCHANGED <<in_progress, cur>>

star_sync_auth_start(pre, username, password, on_done_fn, user_data) ==
    /\ lock["auth"] = Unlocked
    /\ StartCommon(pre, "auth", on_done_fn, user_data)
    /\ auth_log' = Append(auth_log, [username |-> username, password |-> password,
                                     busy |-> in_progress["auth"]])
    /\ req' = IF StartAccepts("auth")
              THEN [req EXCEPT !["auth"] =
                      [username_buf |-> str_copy(@.username_buf,
                                           IF username = NullStr THEN <<>> ELSE username,
                                           AUTH_USERNAME_SIZE),
                       password_buf |-> str_copy(@.password_buf,
                                           IF password = NullStr THEN <<>> ELSE password,
                                           AUTH_PASSWORD_SIZE)]]
              ELSE req
    /\ res' = res

star_sync_inventory_start(pre, local_items, local_count, default_game_source, on_done_fn, on_done_user_data) ==
    /\ lock["inv"] = Unlocked
    /\ StartCommon(pre, "inv", on_done_fn, on_done_user_data)
    /\ req' = IF StartAccepts("inv")
              THEN [req EXCEPT !["inv"] =
                      [local_items |-> local_items,
                       local_count |-> IF local_count < 0 THEN 0 ELSE local_count,
                       default_game_source |-> OrEmpty(default_game_source)]]
              ELSE req
    /\ res' = IF StartAccepts("inv")
              THEN [res EXCEPT !["inv"].list = NullList]
              ELSE res

star_sync_send_item_start(pre, target, item_name, quantity, to_clan, item_id, on_done_fn, user_data) ==
    /\ lock["send"] = Unlocked
    /\ StartCommon(pre, "send", on_done_fn, user_data)
    /\ req' = IF StartAccepts("send")
              THEN [req EXCEPT !["send"] =
                      [target_buf |-> OrEmpty(target),
                       item_name_buf |-> OrEmpty(item_name),
                       item_id_buf |-> OrEmpty(item_id),
                       quantity |-> IF quantity < 1 THEN 1 ELSE quantity,
                       to_clan |-> IF to_clan # 0 THEN 1 ELSE 0]]
              ELSE req
    /\ res' = res

star_sync_use_item_start(pre, item_name, context, on_done_fn, user_data) ==
    /\ lock["use"] = Unlocked
    /\ StartCommon(pre, "use", on_done_fn, user_data)
    /\ req' = IF StartAccepts("use")
              THEN [req EXCEPT !["use"] =
                      [item_name_buf |-> OrEmpty(item_name),
                       context_buf |-> OrEmpty(context)]]
              ELSE req
    /\ res' = res

(* ---------------------------------------------------------------------- *)
(* star_sync.c: get_result and clear_result, as the values they leave      *)
(* ---------------------------------------------------------------------- *)
(* a get_result that leaves has_result as it is *)
GetResultKeeps(hr, s) == hr

(* the return value of star_sync_X_get_result *)
GetResultRet(hr, s) == IF hr[s] THEN 1 ELSE 0

(* has_result after star_sync_X_get_result *)
GetResultHr(hr, s) == [hr EXCEPT ![s] = FALSE]

(* the stored result after star_sync_X_get_result: the inventory slot hands *)
(* its list to the caller                                                   *)
GetResultRes(hr, r, s) ==
    IF s = "inv" /\ hr[s] THEN [r EXCEPT !["inv"].list = NullList] ELSE r

(* the stored result after star_sync_inventory_clear_result *)
ClearResultRes(r) ==
    [r EXCEPT !["inv"].list = NullList, !["inv"].add_item_error = "", !["inv"].add_item_calls = 0]


(* ---------------------------------------------------------------------- *)
(* Item names, descriptions and the remote inventory service               *)
(* ---------------------------------------------------------------------- *)
BaseNames == {"Shells", "Gold Key", "Shotgun"}

(* The "_%06u" text of a number has exactly six digits below this value *)
SeqSuffixLimit == 1000000

(* name ends with '_' and six digits (and is at least 8 characters long)   *)
HasSeqSuffix(n) == n.suf # NoSuffix /\ n.suf < SeqSuffixLimit /\ n.base # ""

(* the name without its "_NNNNNN" tail *)
StripSeqSuffix(n) == IF HasSeqSuffix(n) THEN PlainName(n.base) ELSE n

(* A description is modelled by the number after its last '+': NoPlus when *)
(* the text has no "+digit".                                               *)
NoPlus == -1

OQ_ParsePickupDelta(description) == IF description = NoPlus THEN 1 ELSE description

(* The items the remote service may hold.  star_api_add_item either adds to *)
(* the stack of an existing name or refuses, so names in a snapshot differ. *)
RemoteItems ==
    { [name |-> PlainName("Shells"), id |-> "id-shells", quantity |-> 25, description |-> NoPlus],
      [name |-> PlainName("Gold Key"), id |-> "id-key", quantity |-> 0, description |-> NoPlus],
      [name |-> PlainName("Shotgun"), id |-> "id-shotgun", quantity |-> 1, description |-> NoPlus] }

RemoteNames == { it.name : it \in RemoteItems }

DistinctNames(list) ==
    \A i, j \in 1..Len(list) : i # j => list[i].name # list[j].name

(* the place of an item in the service's listing *)
RemoteRank(it) ==
    CASE it.name.base = "Shotgun" -> 1
      [] it.name.base = "Shells" -> 2
      [] it.name.base = "Gold Key" -> 3

(* what star_api_get_inventory may return: any of the items, in listing order *)
Snapshots ==
    { l \in UNION { [1..n -> RemoteItems] : n \in 0..MaxSnapshot } :
         /\ DistinctNames(l)
         /\ \A i, j \in 1..Len(l) : i < j => RemoteRank(l[i]) < RemoteRank(l[j]) }

(* the snapshots a client of the job layer alone is shown *)
SmallSnapshots == { l \in Snapshots : Len(l) <= 1 /\ \A i \in 1..Len(l) : l[i].quantity > 1 }

(* ---------------------------------------------------------------------- *)
(* star_sync.c: the worker thread procs                                    *)
(* ---------------------------------------------------------------------- *)
IsThread(j, s, pc) == j \in 1..Len(threads) /\ threads[j].slot = s /\ threads[j].pc = pc

(* auth_thread_proc, lines 72-81, in the build with _WIN32: the mutex is   *)
(* entered, the credentials are copied out of the slot, the mutex is left  *)
auth_thread_copy(j) ==
    /\ IsThread(j, "auth", "copy")
    /\ lock["auth"] = Unlocked
    /\ threads' = [threads EXCEPT ![j].pc = "call",
                      ![j].loc = [user |-> str_copy(<<>>, req["auth"].username_buf, AUTH_USERNAME_SIZE),
                                  pass |-> str_copy(<<>>, req["auth"].password_buf, AUTH_PASSWORD_SIZE)]]
    /\ UNCHANGED <<slotVars, gameVars, mainVars, histVars>>

(* auth_thread_proc, lines 75-76, in the build without _WIN32: no         *)
(* pthread_mutex_lock precedes the copy of the credentials                *)
auth_thread_copy_posix(j) ==
    /\ IsThread(j, "auth", "copy")
    /\ threads' = [threads EXCEPT ![j].pc = "unlock",
                      ![j].loc = [user |-> str_copy(<<>>, req["auth"].username_buf, AUTH_USERNAME_SIZE),
                                  pass |-> str_copy(<<>>, req["auth"].password_buf, AUTH_PASSWORD_SIZE)]]
    /\ UNCHANGED <<slotVars, gameVars, mainVars, histVars>>

(* auth_thread_proc, line 80, in the build without _WIN32:                 *)
(* pthread_mutex_unlock of a mutex the thread has not locked.  The         *)
(* behaviour is undefined: the mutex is left as it is, or it is released   *)
(* whoever holds it                                                        *)
auth_thread_unlock_posix(j) ==
    /\ IsThread(j, "auth", "unlock")
    /\ lock' \in {lock, [lock EXCEPT !["auth"] = Unlocked]}
    /\ threads' = [threads EXCEPT ![j].pc = "call"]
    /\ UNCHANGED <<in_progress, has_result, on_done, on_done_user, req, res, gameVars,
                   mainVars, histVars>>

(* auth_thread_proc, lines 83-90: the two remote calls *)
auth_thread_call(j) ==
    /\ IsThread(j, "auth", "call")
    /\ \E auth_ok \in BOOLEAN, avatar_ok \in BOOLEAN :
          /\ ~auth_ok => ~avatar_ok
          /\ threads' = [threads EXCEPT ![j].pc = "enter",
                ![j].loc = [user |-> @.user, pass |-> @.pass,
                            success |-> IF auth_ok /\ avatar_ok THEN 1 ELSE 0,
                            avatar_id |-> IF avatar_ok THEN "avatar" ELSE "",
                            err |-> IF auth_ok /\ avatar_ok THEN "" ELSE "error"]]
    /\ authCalls' = Append(authCalls, [username |-> threads[j].loc.user,
                                       password |-> threads[j].loc.pass])
    /\ UNCHANGED <<slotVars, gameVars, mainVars, n_start, n_busy, n_event, cur, auth_log, last>>

(* send_item_thread_proc, lines 414-429 *)
send_item_thread_copy(j) ==
    /\ IsThread(j, "send", "copy")
    /\ lock["send"] = Unlocked
    /\ threads' = [threads EXCEPT ![j].pc = "call", ![j].loc = req["send"]]
    /\ UNCHANGED <<slotVars, gameVars, mainVars, histVars>>

(* send_item_thread_proc, lines 431-438 *)
send_item_thread_call(j) ==
    /\ IsThread(j, "send", "call")
    /\ \E ok \in BOOLEAN :
          threads' = [threads EXCEPT ![j].pc = "enter",
                ![j].loc = [sent |-> [kind |-> IF threads[j].loc.to_clan # 0 THEN "clan" ELSE "avatar",
                                      target |-> threads[j].loc.target_buf,
                                      item_name |-> threads[j].loc.item_name_buf,
                                      quantity |-> IF threads[j].loc.quantity < 1 THEN 1
                                                   ELSE threads[j].loc.quantity,
                                      item_id |-> IF threads[j].loc.item_id_buf = "" THEN NULL
                                                  ELSE threads[j].loc.item_id_buf],
                            success |-> IF ok THEN 1 ELSE 0,
                            err |-> IF ok THEN "" ELSE "error"]]
    /\ UNCHANGED <<slotVars, gameVars, mainVars, histVars>>

(* use_item_thread_proc, lines 299-311 *)
use_item_thread_copy(j) ==
    /\ IsThread(j, "use", "copy")
    /\ lock["use"] = Unlocked
    /\ threads' = [threads EXCEPT ![j].pc = "call", ![j].loc = req["use"]]
    /\ UNCHANGED <<slotVars, gameVars, mainVars, histVars>>

(* use_item_thread_proc, lines 312-315 *)
use_item_thread_call(j) ==
    /\ IsThread(j, "use", "call")
    /\ \E ok \in BOOLEAN :
          threads' = [threads EXCEPT ![j].pc = "enter",
                ![j].loc = [used |-> [item_name |-> threads[j].loc.item_name_buf,
                                      context |-> IF threads[j].loc.context_buf = "" THEN "unknown"
                                                  ELSE threads[j].loc.context_buf],
                            success |-> IF ok THEN 1 ELSE 0,
                            err |-> IF ok THEN "" ELSE "error"]]
    /\ UNCHANGED <<slotVars, gameVars, mainVars, histVars>>


(* a thread proc that keeps the mutex after the copy of its arguments *)
inventory_thread_copy_keeps_mutex(j) ==
    /\ IsThread(j, "inv", "copy")
    /\ lock["inv"] = Unlocked
    /\ lock' = [lock EXCEPT !["inv"] = j]
    /\ threads' = [threads EXCEPT ![j].pc = "call",
                      ![j].loc = [local |-> req["inv"].local_items,
                                  local_count |-> req["inv"].local_count,
                                  default_src |-> req["inv"].default_game_source]]
    /\ UNCHANGED <<in_progress, has_result, on_done, on_done_user, req, res, gameVars,
                   mainVars, histVars>>

(* inventory_thread_proc, lines 684-697 *)
inventory_thread_copy(j) ==
    /\ IsThread(j, "inv", "copy")
    /\ lock["inv"] = Unlocked
    /\ threads' = [threads EXCEPT ![j].pc = "call",
                      ![j].loc = [local |-> req["inv"].local_items,
                                  local_count |-> req["inv"].local_count,
                                  default_src |-> req["inv"].default_game_source]]
    /\ UNCHANGED <<slotVars, gameVars, mainVars, histVars>>

(* int qty = (local[i].quantity > 0) ? local[i].quantity : 1; *)
PushQty(e) == IF e.quantity > 0 THEN e.quantity ELSE 1

(* is_stack, lines 711-717 *)
IsStack(e) == PushQty(e) > 1 \/ HasSeqSuffix(e.name)

(* the add_item job queued for one unsynced entry, lines 718-752: none when *)
(* an unlock entry is already on the remote (star_api_has_item)             *)
PushOf(e, i, have) ==
    IF IsStack(e)
    THEN <<[idx |-> i, name |-> StripSeqSuffix(e.name), quantity |-> PushQty(e), stack |-> PushQty(e)]>>
    ELSE IF e.name \in have
         THEN <<>>
         ELSE <<[idx |-> i, name |-> e.name, quantity |-> 1, stack |-> 1]>>

(* the jobs queued by the loop of lines 704-755 over local[0..n-1] *)
RECURSIVE QueuedPushes(_, _, _)
QueuedPushes(local, n, have) ==
    IF n = 0 THEN <<>>
    ELSE QueuedPushes(local, n - 1, have)
            \o (IF local[n].synced # 0 THEN <<>> ELSE PushOf(local[n], n, have))

(* the names star_api_has_item is asked about, line 744 *)
QueriedNames(local, n) ==
    { local[i].name : i \in { k \in 1..n : local[k].synced = 0 /\ ~IsStack(local[k]) } }

(* local[i].synced = 1, line 753: every entry the loop visits *)
MarkPushed(local, n) ==
    [i \in DOMAIN local |-> IF i <= n /\ local[i].synced = 0
                            THEN [local[i] EXCEPT !.synced = 1]
                            ELSE local[i]]

(* history: the entries of local[0..n-1] the push phase found on the remote *)
(* (star_api_has_item) or added to it (a queued add_item, flushed)          *)
OnRemote(local, n, have, queued, flush_ok) ==
    { i \in 1..n : /\ local[i].synced = 0
                   /\ \/ ~IsStack(local[i]) /\ local[i].name \in have
                      \/ flush_ok /\ \E k \in 1..Len(queued) : queued[k].idx = i }

(* history: the names of the entries of local[0..n-1] for which the loop   *)
(* queues an add_item that stacks (lines 711-739)                          *)
StackPushed(local, n) ==
    { local[i].name : i \in { k \in 1..n : local[k].synced = 0 /\ IsStack(local[k]) } }

(* a push phase that sets the synced flags of the ledger itself *)
inventory_thread_push_ledger(j) ==
    /\ IsThread(j, "inv", "call")
    /\ LET l == threads[j].loc
           pushes == l.local # NULL /\ l.local_count > 0 /\ l.default_src # ""
       IN \E have \in SUBSET (IF pushes THEN QueriedNames(g_star_sync_local_items, l.local_count)
                                ELSE {}),
             flush_ok \in BOOLEAN :
            LET queued == IF pushes
                          THEN QueuedPushes(g_star_sync_local_items, l.local_count, have)
                          ELSE <<>>
            IN /\ Len(queued) = 0 => flush_ok
               /\ g_star_sync_local_items' =
                     IF pushes THEN MarkPushed(g_star_sync_local_items, l.local_count)
                     ELSE g_star_sync_local_items
               /\ res' = [res EXCEPT !["inv"].add_item_error =
                                        IF flush_ok THEN "" ELSE "flush add_item jobs failed"]
               /\ threads' = [threads EXCEPT ![j].pc = "fetch",
                     ![j].loc = [local |-> l.local, local_count |-> l.local_count,
                                 default_src |-> l.default_src,
                                 queued |-> queued, flush_ok |-> flush_ok,
                                 add_item_calls |-> Len(queued)],
                     ![j].on_remote =
                         IF pushes
                         THEN OnRemote(g_star_sync_local_items, l.local_count, have, queued, flush_ok)
                         ELSE {},
                     ![j].pushed =
                         IF pushes THEN StackPushed(g_star_sync_local_items, l.local_count)
                         ELSE {}]
    /\ g_local_inventory_entries' =
          [i \in 1..Len(g_local_inventory_entries) |->
              [g_local_inventory_entries[i] EXCEPT !.synced = TRUE]]
    /\ UNCHANGED <<in_progress, has_result, on_done, on_done_user, req, lock,
                   g_inventory_entries, g_inventory_status,
                   g_star_initialized, g_inventory_event_seq, overlayVars, mainVars, histVars>>

(* inventory_thread_proc, lines 699-765: the push phase.  have is what      *)
(* star_api_has_item answers, flush_ok the result of the batched flush.     *)
inventory_thread_push(j) ==
    /\ IsThread(j, "inv", "call")
    /\ LET l == threads[j].loc
           pushes == l.local # NULL /\ l.local_count > 0 /\ l.default_src # ""
       IN \E have \in SUBSET (IF pushes THEN QueriedNames(g_star_sync_local_items, l.local_count)
                                ELSE {}),
             flush_ok \in BOOLEAN :
            LET queued == IF pushes
                          THEN QueuedPushes(g_star_sync_local_items, l.local_count, have)
                          ELSE <<>>
            IN /\ Len(queued) = 0 => flush_ok
               /\ g_star_sync_local_items' =
                     IF pushes THEN MarkPushed(g_star_sync_local_items, l.local_count)
                     ELSE g_star_sync_local_items
               /\ res' = [res EXCEPT !["inv"].add_item_error =
                                        IF flush_ok THEN "" ELSE "flush add_item jobs failed"]
               /\ threads' = [threads EXCEPT ![j].pc = "fetch",
                     ![j].loc = [local |-> l.local, local_count |-> l.local_count,
                                 default_src |-> l.default_src,
                                 queued |-> queued, flush_ok |-> flush_ok,
                                 add_item_calls |-> Len(queued)],
                     ![j].on_remote =
                         IF pushes
                         THEN OnRemote(g_star_sync_local_items, l.local_count, have, queued, flush_ok)
                         ELSE {},
                     ![j].pushed =
                         IF pushes THEN StackPushed(g_star_sync_local_items, l.local_count)
                         ELSE {}]
    /\ UNCHANGED <<in_progress, has_result, on_done, on_done_user, req, lock,
                   g_local_inventory_entries, g_inventory_entries, g_inventory_status,
                   g_star_initialized, g_inventory_event_seq, overlayVars, mainVars, histVars>>

(* inventory_thread_proc, lines 767-774: star_api_get_inventory, the      *)
(* remote service answering with one of lists, with no list, or failing   *)
inventory_thread_fetch(j, lists) ==
    /\ IsThread(j, "inv", "fetch")
    /\ \E outcome \in [result : {STAR_API_SUCCESS}, list : {ListAt(l) : l \in lists} \cup {NullList}]
                      \cup [result : {STAR_API_ERROR_NETWORK}, list : {NullList}] :
          threads' = [threads EXCEPT ![j].pc = "enter",
                ![j].loc = [queued |-> @.queued, flush_ok |-> @.flush_ok,
                            add_item_calls |-> @.add_item_calls,
                            list |-> outcome.list,
                            result |-> IF outcome.result = STAR_API_SUCCESS /\ outcome.list = NullList
                                       THEN STAR_API_ERROR_API_ERROR ELSE outcome.result,
                            err |-> IF outcome.result # STAR_API_SUCCESS THEN "Unknown error"
                                    ELSE IF outcome.list = NullList
                                         THEN "Inventory API returned success but no data"
                                         ELSE ""],
                ![j].heap = IF outcome.list = NullList THEN "none" ELSE "live",
                ![j].refs = IF outcome.list = NullList THEN {} ELSE {"local"}]
    /\ UNCHANGED <<slotVars, gameVars, mainVars, histVars>>

(* a thread proc that takes the slot's mutex and leaves in_progress set *)
thread_enter_keeps_flag(j) ==
    /\ j \in 1..Len(threads)
    /\ threads[j].pc = "enter"
    /\ lock[threads[j].slot] = Unlocked
    /\ lock' = [lock EXCEPT ![threads[j].slot] = j]
    /\ threads' = [threads EXCEPT ![j].pc = "store"]
    /\ UNCHANGED <<in_progress, has_result, on_done, on_done_user, req, res, gameVars,
                   mainVars, histVars>>

(* Every thread proc: take the slot's mutex and clear in_progress           *)
(* (lines 92-97, 316-321, 440-445, 776-781)                                 *)
thread_enter(j) ==
    /\ j \in 1..Len(threads)
    /\ threads[j].pc = "enter"
    /\ lock[threads[j].slot] = Unlocked
    /\ lock' = [lock EXCEPT ![threads[j].slot] = j]
    /\ in_progress' = [in_progress EXCEPT ![threads[j].slot] = FALSE]
    /\ threads' = [threads EXCEPT ![j].pc = "store"]
    /\ UNCHANGED <<has_result, on_done, on_done_user, req, res, gameVars, mainVars, histVars>>

(* a stored result that leaves the push failure out *)
StoredResultNoPushError(s, l, old) ==
    CASE s = "auth" -> [success |-> l.success, username_out |-> str_copy(old.username_out, l.user, AUTH_USERNAME_SIZE),
                        avatar_id_out |-> l.avatar_id, error_msg |-> l.err]
      [] s = "inv"  -> [list |-> l.list, result |-> l.result, error_msg |-> l.err,
                        add_item_error |-> old.add_item_error,
                        add_item_calls |-> l.add_item_calls]
      [] s = "send" -> [success |-> l.success, error_msg |-> l.err]
      [] s = "use"  -> [success |-> l.success, error_msg |-> l.err]

(* the result a thread proc stores (lines 98-102, 322-324, 446-448, 782-794) *)
StoredResult(s, l, old) ==
    CASE s = "auth" -> [success |-> l.success, username_out |-> str_copy(old.username_out, l.user, AUTH_USERNAME_SIZE),
                        avatar_id_out |-> l.avatar_id, error_msg |-> l.err]
      [] s = "inv"  -> [list |-> l.list,
                        result |-> IF old.add_item_error # "" /\ l.result = STAR_API_SUCCESS
                                   THEN STAR_API_ERROR_NOT_INITIALIZED ELSE l.result,
                        error_msg |-> IF old.add_item_error # "" THEN old.add_item_error ELSE l.err,
                        add_item_error |-> old.add_item_error,
                        add_item_calls |-> l.add_item_calls]
      [] s = "send" -> [success |-> l.success, error_msg |-> l.err]
      [] s = "use"  -> [success |-> l.success, error_msg |-> l.err]

(* a thread proc that returns without setting has_result *)
thread_store_no_flag(j) ==
    /\ j \in 1..Len(threads)
    /\ threads[j].pc = "store"
    /\ lock[threads[j].slot] = j
    /\ res' = [res EXCEPT ![threads[j].slot] = StoredResult(threads[j].slot, threads[j].loc, @)]
    /\ lock' = [lock EXCEPT ![threads[j].slot] = Unlocked]
    /\ threads' = StoreList([threads EXCEPT ![j].pc = "done", ![j].loc = <<>>], j)
    /\ UNCHANGED <<in_progress, has_result, on_done, on_done_user, req, gameVars, mainVars, histVars>>

(* a thread proc that calls the completion callback itself *)
thread_store_invokes(j) ==
    /\ j \in 1..Len(threads)
    /\ threads[j].pc = "store"
    /\ lock[threads[j].slot] = j
    /\ has_result' = [has_result EXCEPT ![threads[j].slot] = TRUE]
    /\ res' = [res EXCEPT ![threads[j].slot] = StoredResult(threads[j].slot, threads[j].loc, @)]
    /\ lock' = [lock EXCEPT ![threads[j].slot] = Unlocked]
    /\ threads' = StoreList([threads EXCEPT ![j].pc = "done", ![j].loc = <<>>,
                                   ![j].invoked = @ + (IF threads[j].fn # NULL THEN 1 ELSE 0)], j)
    /\ UNCHANGED <<in_progress, on_done, on_done_user, req, gameVars, mainVars, histVars>>

(* Every thread proc: set has_result, store the result, release the mutex, return *)
thread_store(j) ==
    /\ j \in 1..Len(threads)
    /\ threads[j].pc = "store"
    /\ lock[threads[j].slot] = j
    /\ has_result' = [has_result EXCEPT ![threads[j].slot] = TRUE]
    /\ res' = [res EXCEPT ![threads[j].slot] = StoredResult(threads[j].slot, threads[j].loc, @)]
    /\ lock' = [lock EXCEPT ![threads[j].slot] = Unlocked]
    /\ threads' = StoreList([threads EXCEPT ![j].pc = "done", ![j].loc = <<>>], j)
    /\ UNCHANGED <<in_progress, on_done, on_done_user, req, gameVars, mainVars, histVars>>

(* Every thread proc: the return after the mutex is released (lines 106-109, *)
(* 328-331, 452-455, 797-802); the thread ends.  Nothing joins it.          *)
thread_exit(j) ==
    /\ j \in 1..Len(threads)
    /\ threads[j].pc = "done"
    /\ threads[j].alive
    /\ threads' = [threads EXCEPT ![j].alive = FALSE]
    /\ UNCHANGED <<in_progress, has_result, on_done, on_done_user, req, res, lock,
                   gameVars, mainVars, histVars>>

(* ---------------------------------------------------------------------- *)
(* star_sync.c: star_sync_pump.  The pump looks at the slots in the order  *)
(* auth, inventory, send-item, use-item; for each it takes the callback    *)
(* under the slot's mutex and calls it after releasing the mutex.          *)
(* ---------------------------------------------------------------------- *)
PumpAt(s) ==
    CASE s = "auth" -> "idle" [] s = "inv" -> "pump_inv"
      [] s = "send" -> "pump_send" [] s = "use" -> "pump_use"

CallbackAt(s) ==
    CASE s = "auth" -> "cb_auth" [] s = "inv" -> "cb_inv"
      [] s = "send" -> "cb_send" [] s = "use" -> "cb_use"

PumpAfter(s) ==
    CASE s = "auth" -> "pump_inv" [] s = "inv" -> "pump_send"
      [] s = "send" -> "pump_use" [] s = "use" -> "idle"

(* history: the pump has looked at slot s after the worker of its last     *)
(* accepted start returned                                                 *)
MarkSeen(th, s) ==
    IF cur[s] = 0 THEN th
    ELSE [th EXCEPT ![cur[s]].seen = @ \/ th[cur[s]].pc = "done"]

(* history: the callback registered by the last accepted start is invoked *)
MarkInvoked(th, s) ==
    IF cur[s] = 0 THEN th
    ELSE [th EXCEPT ![cur[s]].invoked = @ + 1, ![cur[s]].seen = TRUE]

(* a pump that takes the callback whether or not a result is there *)
PumpTakesRegistered(s) == on_done[s] # NULL

(* if (g_X_has_result && g_X_on_done) *)
PumpTakes(s) == has_result[s] /\ on_done[s] # NULL

(* the main thread as the holder of a mutex *)
MainThread == MaxThreads + 1

(* a pump that calls the callback of slot s without releasing the mutex *)
star_sync_pump_take_locked(s) ==
    /\ main_pc = PumpAt(s)
    /\ lock[s] = Unlocked
    /\ IF PumpTakes(s)
       THEN /\ pump_local' = [fn |-> on_done[s], ud |-> on_done_user[s]]
            /\ on_done' = [on_done EXCEPT ![s] = NULL]
            /\ on_done_user' = [on_done_user EXCEPT ![s] = NULL]
            /\ main_pc' = CallbackAt(s)
            /\ threads' = threads
            /\ lock' = [lock EXCEPT ![s] = MainThread]
       ELSE /\ pump_local' = NoCallback
            /\ UNCHANGED <<on_done, on_done_user, lock>>
            /\ main_pc' = PumpAfter(s)
            /\ threads' = MarkSeen(threads, s)
    /\ UNCHANGED <<in_progress, has_result, req, res, gameVars, histVars>>

(* star_sync_pump, the critical section of slot s                          *)
(* (lines 587-602, 608-623, 629-644, 650-665)                              *)
star_sync_pump_take(s) ==
    /\ main_pc = PumpAt(s)
    /\ lock[s] = Unlocked
    /\ IF PumpTakes(s)
       THEN /\ pump_local' = [fn |-> on_done[s], ud |-> on_done_user[s]]
            /\ on_done' = [on_done EXCEPT ![s] = NULL]
            /\ on_done_user' = [on_done_user EXCEPT ![s] = NULL]
            /\ main_pc' = CallbackAt(s)
            /\ threads' = threads
       ELSE /\ pump_local' = NoCallback
            /\ UNCHANGED <<on_done, on_done_user>>
            /\ main_pc' = PumpAfter(s)
            /\ threads' = MarkSeen(threads, s)
    /\ UNCHANGED <<in_progress, has_result, req, res, lock, gameVars, histVars>>

(* The callbacks a client of the job layer registers *)
ClientCallback(s, fn) ==
    /\ fn = "on_done_get" => lock[s] = Unlocked
    /\ has_result' = IF fn = "on_done_get" THEN GetResultHr(has_result, s) ELSE has_result
    /\ res' = IF fn = "on_done_get" THEN GetResultRes(has_result, res, s) ELSE res
    /\ threads' = GetAndFree(MarkInvoked(threads, s), s, fn = "on_done_get" /\ has_result[s])
    /\ UNCHANGED <<in_progress, on_done, on_done_user, req, lock, gameVars, histVars>>

(* ---------------------------------------------------------------------- *)
(* oquake_star_integration.c: the pending ledger and the display list      *)
(* ---------------------------------------------------------------------- *)
(* a new ledger entry: dst->id = "", dst->quantity = 1, synced = false *)
LocalEntry(name, description) ==
    [name |-> name, description |-> description, synced |-> FALSE]

InLedger(ledger, name) == \E i \in 1..Len(ledger) : ledger[i].name = name
InDisplay(display, name) == \E j \in 1..Len(display) : display[j].name = name

(* OQ_AddInventoryUnlockIfMissing: the ledger it leaves *)
OQ_AddInventoryUnlockIfMissing(ledger, item_name, description) ==
    IF item_name = EmptyName THEN ledger
    ELSE IF InLedger(ledger, item_name) THEN ledger
    ELSE IF Len(ledger) < OQ_MAX_INVENTORY_ITEMS
         THEN Append(ledger, LocalEntry(item_name, description))
         ELSE ledger

(* the values the seeding expression of OQ_AddInventoryEvent can give: 1..999999 *)
EventSeeds == {1, SeqSuffixLimit - 1}

(* g_inventory_event_seq after OQ_AddInventoryEvent's seeding and increment *)
EventSeq(seq, seed) == (IF seq = 0 THEN seed ELSE seq) + 1

(* OQ_AddInventoryEvent: the ledger it leaves; seq is the incremented counter *)
OQ_AddInventoryEvent(ledger, seq, item_prefix, description) ==
    IF Len(ledger) < OQ_MAX_INVENTORY_ITEMS
    THEN Append(ledger, LocalEntry([base |-> item_prefix, suf |-> seq], description))
    ELSE ledger

(* a local-only display entry *)
LocalDisplayEntry(e) ==
    [name |-> e.name, id |-> "", quantity |-> 1, description |-> e.description]

(* a display entry copied from a remote item *)
RemoteDisplayEntry(it) ==
    [name |-> it.name, id |-> it.id,
     quantity |-> IF it.quantity > 0 THEN it.quantity ELSE 1,
     description |-> it.description]

RECURSIVE AppendLocalFrom(_, _, _)
AppendLocalFrom(display, ledger, i) ==
    IF i > Len(ledger) \/ Len(display) >= OQ_MAX_INVENTORY_ITEMS THEN display
    ELSE AppendLocalFrom(IF InDisplay(display, ledger[i].name) THEN display
                         ELSE Append(display, LocalDisplayEntry(ledger[i])),
                         ledger, i + 1)

(* OQ_AppendLocalToDisplay: the display list it leaves *)
OQ_AppendLocalToDisplay(display, ledger) == AppendLocalFrom(display, ledger, 1)

(* the copy of the ledger into g_star_sync_local_items (lines 673-683, 987-997) *)
MirrorOf(mirror, ledger) ==
    [l \in DOMAIN mirror |->
        IF l <= Len(ledger)
        THEN [name |-> ledger[l].name,
              quantity |-> IF OQ_ParsePickupDelta(ledger[l].description) > 0
                           THEN OQ_ParsePickupDelta(ledger[l].description) ELSE 1,
              synced |-> IF ledger[l].synced THEN 1 ELSE 0]
        ELSE mirror[l]]

(* ---------------------------------------------------------------------- *)
(* OQ_ProcessInventoryResult, step by step                                 *)
(* ---------------------------------------------------------------------- *)
(* int remote_ok = (result == STAR_API_SUCCESS && list != NULL); *)
RemoteOk(list, result) == result = STAR_API_SUCCESS /\ list # NullList

(* lines 746-751: copy the synced flags back from the mirror *)
CopyBackSynced(ledger, mirror) ==
    [l \in 1..Len(ledger) |-> [ledger[l] EXCEPT !.synced = (mirror[l].synced # 0)]]

(* lines 754-765: the snapshot items the first loop copies *)
TakenItems(list, result) ==
    IF RemoteOk(list, result)
    THEN SubSeq(list[1], 1, Min(Len(list[1]), OQ_MAX_INVENTORY_ITEMS))
    ELSE <<>>

(* remote_item_names *)
RemoteItemNames(list, result) ==
    { TakenItems(list, result)[i].name : i \in 1..Len(TakenItems(list, result)) }

(* lines 766-774: the first ledger entry with the name of a copied item is marked *)
MarkFirstMatch(ledger, names) ==
    [l \in 1..Len(ledger) |->
        IF ledger[l].name \in names /\ \A k \in 1..(l - 1) : ledger[k].name # ledger[l].name
        THEN [ledger[l] EXCEPT !.synced = TRUE]
        ELSE ledger[l]]

(* lines 778-797: every unsynced entry found in remote_item_names is marked *)
MarkFoundInRemote(ledger, names, remote_ok) ==
    [l \in 1..Len(ledger) |->
        IF ~ledger[l].synced /\ remote_ok /\ ledger[l].name \in names
        THEN [ledger[l] EXCEPT !.synced = TRUE]
        ELSE ledger[l]]

(* the synced flags as they stand when the compaction begins *)
ReconciledLedger(ledger, mirror, list, result) ==
    MarkFoundInRemote(MarkFirstMatch(CopyBackSynced(ledger, mirror), RemoteItemNames(list, result)),
                      RemoteItemNames(list, result), RemoteOk(list, result))

(* an append loop that looks neither at the display list nor at the flags *)
AppendPendingAll(display, ledger, i, names, remote_ok) ==
    display \o [k \in 1..Len(ledger) |-> LocalDisplayEntry(ledger[k])]

(* lines 799-833: ledger entries not yet displayed are appended *)
RECURSIVE AppendPendingFrom(_, _, _, _, _)
AppendPendingFrom(display, ledger, i, names, remote_ok) ==
    IF i > Len(ledger) \/ Len(display) >= OQ_MAX_INVENTORY_ITEMS THEN display
    ELSE AppendPendingFrom(
            IF InDisplay(display, ledger[i].name) THEN display
            ELSE IF ledger[i].synced /\ remote_ok /\ ledger[i].name \in names THEN display
            ELSE Append(display, LocalDisplayEntry(ledger[i])),
            ledger, i + 1, names, remote_ok)

(* the display list OQ_ProcessInventoryResult builds *)
ReconciledDisplay(ledger, mirror, list, result) ==
    AppendPendingFrom(
        [i \in 1..Len(TakenItems(list, result)) |-> RemoteDisplayEntry(TakenItems(list, result)[i])],
        ReconciledLedger(ledger, mirror, list, result), 1,
        RemoteItemNames(list, result), RemoteOk(list, result))

IsUnsynced(e) == ~e.synced

(* a compaction that sets the count and does not move the entries down *)
CompactLedgerNoMove(ledger) == SubSeq(ledger, 1, Cardinality({ l \in 1..Len(ledger) : ~ledger[l].synced }))

(* a compaction that empties the ledger *)
CompactLedgerAll(ledger) == SubSeq(ledger, 1, 0)

(* lines 835-847: the compaction keeps the unsynced entries, in order *)
CompactLedger(ledger) == SelectSeq(ledger, IsUnsynced)

(* lines 850-881: the status line *)
ReconciledStatus(count, pending_local, remote_ok, api_error, initialized) ==
    IF count = 0
    THEN IF remote_ok THEN StatusText("STAR inventory is empty.", 0, 0, "")
         ELSE IF api_error # NULL THEN StatusText("STAR API error: %s", 0, 0, api_error)
         ELSE StatusText("Inventory is empty.", 0, 0, "")
    ELSE IF remote_ok
         THEN IF pending_local > 0
              THEN StatusText("Synced (%d items), %d pending", count, pending_local, "")
              ELSE StatusText("Synced (%d items)", count, 0, "")
    ELSE IF initialized # 0
         THEN IF api_error # NULL
              THEN StatusText("STAR API error: %s (showing local: %d items)", count, 0, api_error)
              ELSE StatusText("STAR API unavailable; showing local inventory (%d items)", count, 0, "")
    ELSE StatusText("Offline - use STAR BEAMIN", 0, 0, "")

(* ---------------------------------------------------------------------- *)
(* oquake_star_integration.c: the grouped rows of the overlay              *)
(* ---------------------------------------------------------------------- *)
OQ_TAB_KEYS == "OQ_TAB_KEYS"
OQ_TAB_WEAPONS == "OQ_TAB_WEAPONS"
OQ_TAB_AMMO == "OQ_TAB_AMMO"
Tabs == {OQ_TAB_KEYS, OQ_TAB_WEAPONS, OQ_TAB_AMMO}

(* the tabs in the order of the enum, OQ_TAB_COUNT of them *)
TabOrder == <<OQ_TAB_KEYS, "OQ_TAB_POWERUPS", OQ_TAB_WEAPONS, OQ_TAB_AMMO, "OQ_TAB_ARMOR",
              "OQ_TAB_ITEMS">>
OQ_TAB_COUNT == Len(TabOrder)
TabIndex(tab) == CHOOSE i \in 1..OQ_TAB_COUNT : TabOrder[i] = tab

OQ_GROUP_MODE_COUNT == "OQ_GROUP_MODE_COUNT"
OQ_GROUP_MODE_SUM == "OQ_GROUP_MODE_SUM"

(* OQ_ItemMatchesTab: the category is derived from the text of the name *)
OQ_ItemMatchesTab(item, tab) ==
    CASE tab = OQ_TAB_KEYS    -> item.name.base \in {"Gold Key", "Silver Key"}
      [] tab = OQ_TAB_WEAPONS -> item.name.base = "Shotgun"
      [] tab = OQ_TAB_AMMO    -> item.name.base \in {"Shells", "Nails"}
      [] OTHER                -> FALSE

(* rows that depend on the selected row as well *)
RowsFromSelection(display, ledger, tab) ==
    [r \in 1..Cardinality({ i \in 1..Len(display) : i > g_inventory_selected_row })
        |-> [rep |-> r, label |-> display[r].name, mode |-> "OQ_GROUP_MODE_SUM", value |-> 1,
             pending |-> FALSE]]

(* OQ_BuildFilteredIndices: the indices of the display entries of the tab *)
RECURSIVE FilteredFrom(_, _, _)
FilteredFrom(display, tab, i) ==
    IF i > Len(display) THEN <<>>
    ELSE (IF OQ_ItemMatchesTab(display[i], tab) THEN <<i>> ELSE <<>>)
            \o FilteredFrom(display, tab, i + 1)

OQ_BuildFilteredIndices(display, tab) == FilteredFrom(display, tab, 1)

(* q: (item->quantity > 0) ? item->quantity : 1 *)
QuantityOrOne(item) == IF item.quantity > 0 THEN item.quantity ELSE 1

(* OQ_GetGroupedDisplayInfo: label, mode and value of one display entry.   *)
(* Every modelled item has the game source "Quake", so the tag that        *)
(* OQ_AppendGameSourceTag adds is the same for all and is left out.        *)
OQ_GetGroupedDisplayInfo(item) ==
    LET label == StripSeqSuffix(item.name)
    IN IF label = PlainName("Shells") \/ label = PlainName("Nails")
       THEN [label |-> label, mode |-> OQ_GROUP_MODE_SUM,
             value |-> IF OQ_ParsePickupDelta(item.description) > 0
                       THEN OQ_ParsePickupDelta(item.description)
                       ELSE QuantityOrOne(item)]
       ELSE IF label = PlainName("Silver Key") \/ label = PlainName("Gold Key")
       THEN [label |-> label, mode |-> OQ_GROUP_MODE_SUM, value |-> QuantityOrOne(item)]
       ELSE [label |-> label, mode |-> OQ_GROUP_MODE_COUNT, value |-> 1]

(* the row with the mode and label of info, or Len(rows) + 1 *)
RowOf(rows, info) ==
    IF \E r \in 1..Len(rows) : rows[r].mode = info.mode /\ rows[r].label = info.label
    THEN CHOOSE r \in 1..Len(rows) :
            /\ rows[r].mode = info.mode /\ rows[r].label = info.label
            /\ \A q \in 1..(r - 1) : ~(rows[q].mode = info.mode /\ rows[q].label = info.label)
    ELSE Len(rows) + 1

(* out_pending[row]: an unsynced ledger entry has the name of the display entry *)
HasPending(ledger, name) ==
    \E j \in 1..Len(ledger) : ledger[j].name = name /\ ~ledger[j].synced

(* one pass of the loop of OQ_BuildGroupedRows over filtered[k..] *)
RECURSIVE GroupedFrom(_, _, _, _, _, _)
GroupedFrom(display, ledger, filtered, k, rows, max_rows) ==
    IF k > Len(filtered) THEN rows
    ELSE LET item_idx == filtered[k]
             ent == display[item_idx]
             info == OQ_GetGroupedDisplayInfo(ent)
             row == RowOf(rows, info)
         IN IF row = Len(rows) + 1 /\ Len(rows) >= max_rows THEN rows
            ELSE LET old == IF row = Len(rows) + 1
                            THEN [rep |-> item_idx, label |-> info.label, mode |-> info.mode,
                                  value |-> 0, pending |-> FALSE, api_sum |-> 0, local_sum |-> 0]
                            ELSE rows[row]
                     api == old.api_sum + (IF ent.id # "" THEN info.value ELSE 0)
                     loc == old.local_sum + (IF ent.id # "" THEN 0 ELSE info.value)
                     val == IF api > loc THEN api ELSE loc
                     new == [old EXCEPT !.api_sum = api, !.local_sum = loc,
                                        !.value = IF val < 1 THEN 1 ELSE val,
                                        !.pending = old.pending \/ HasPending(ledger, ent.name)]
                 IN GroupedFrom(display, ledger, filtered, k + 1,
                                IF row = Len(rows) + 1 THEN Append(rows, new)
                                ELSE [rows EXCEPT ![row] = new],
                                max_rows)

(* OQ_BuildGroupedRows for the display list, the ledger and the active tab *)
OQ_BuildGroupedRows(display, ledger, tab) ==
    GroupedFrom(display, ledger, OQ_BuildFilteredIndices(display, tab), 1, <<>>,
                OQ_MAX_INVENTORY_ITEMS)

(* ---------------------------------------------------------------------- *)
(* oquake_star_integration.c: the game's handlers (all on the main thread) *)
(* ---------------------------------------------------------------------- *)
(* what a handler that makes no start call leaves of the slots *)
KeepSlots(pre) ==
    /\ has_result' = pre.hr
    /\ on_done' = pre.od
    /\ on_done_user' = pre.odu
    /\ threads' = pre.th
    /\ UNCHANGED <<in_progress, req, res, n_start, n_busy, cur>>

(* a test that does not ask whether an inventory job is running *)
SyncNeededWhileBusy(ledger) ==
    /\ ~in_progress["auth"]
    /\ g_star_initialized # 0
    /\ \E l \in 1..Len(ledger) : ~ledger[l].synced

(* OQ_StartInventorySyncIfNeeded goes on to start a job (lines 962-984) *)
SyncNeeded(ledger) ==
    /\ ~in_progress["inv"]
    /\ ~in_progress["auth"]
    /\ g_star_initialized # 0
    /\ \E l \in 1..Len(ledger) : ~ledger[l].synced

(* OQ_StartInventorySyncIfNeeded, called with the ledger and the status    *)
(* line as the calling handler has left them                               *)
OQ_StartInventorySyncIfNeeded(pre, ledger, status) ==
    IF SyncNeeded(ledger)
    THEN /\ CanCall("inv")
         /\ g_inventory_status' = StatusText("Syncing...", 0, 0, "")
         /\ g_star_sync_local_items' = MirrorOf(g_star_sync_local_items, ledger)
         /\ star_sync_inventory_start(pre, "g_star_sync_local_items", Len(ledger), "Quake",
                                      "OQ_OnInventoryDone", NULL)
    ELSE /\ g_inventory_status' = status
         /\ g_star_sync_local_items' = g_star_sync_local_items
         /\ KeepSlots(pre)

(* OQuake_STAR_OnStatsChangedEx: new_shells > old_shells by delta *)
OQuake_STAR_OnStatsChangedEx ==
    /\ main_pc = "idle"
    /\ g_star_initialized # 0
    /\ lock["inv"] = Unlocked /\ lock["auth"] = Unlocked
    /\ \E delta \in {25}, seed \in EventSeeds :
          LET seq == EventSeq(g_inventory_event_seq, seed)
              ledger == OQ_AddInventoryEvent(g_local_inventory_entries, seq, "Shells", delta)
          IN /\ g_inventory_event_seq = 0 \/ seed = 1
             /\ last' = [op |-> "pickup", item |-> "Shells", delta |-> delta, stack |-> TRUE]
             /\ g_inventory_event_seq' = seq
             /\ g_local_inventory_entries' = ledger
             /\ IF Len(ledger) > Len(g_local_inventory_entries)
                THEN /\ g_inventory_entries' = OQ_AppendLocalToDisplay(g_inventory_entries, ledger)
                     /\ OQ_StartInventorySyncIfNeeded(PreNow, ledger,
                            StatusText("STAR updated: %d pickup event(s)", 1, 0, ""))
                ELSE /\ UNCHANGED <<g_inventory_entries, g_inventory_status, g_star_sync_local_items>>
                     /\ KeepSlots(PreNow)
    /\ n_event' = n_event + 1
    /\ UNCHANGED <<lock, g_star_initialized, overlayVars, mainVars, auth_log, authCalls>>

(* OQuake_STAR_OnStatsChangedEx when shells and nails rise in the same      *)
(* call: two events are recorded, then one sync is started                 *)
OQuake_STAR_OnStatsChangedEx_ShellsNails ==
    /\ main_pc = "idle"
    /\ g_star_initialized # 0
    /\ lock["inv"] = Unlocked /\ lock["auth"] = Unlocked
    /\ LET seq1 == EventSeq(g_inventory_event_seq, 1)
           ledger1 == OQ_AddInventoryEvent(g_local_inventory_entries, seq1, "Shells", 25)
           seq2 == EventSeq(seq1, 1)
           ledger == OQ_AddInventoryEvent(ledger1, seq2, "Nails", 25)
           added == Len(ledger) - Len(g_local_inventory_entries)
       IN /\ last' = [op |-> "pickup", item |-> "Shells, Nails", delta |-> 25, stack |-> TRUE]
          /\ g_inventory_event_seq' = seq2
          /\ g_local_inventory_entries' = ledger
          /\ IF added > 0
             THEN /\ g_inventory_entries' = OQ_AppendLocalToDisplay(g_inventory_entries, ledger)
                  /\ OQ_StartInventorySyncIfNeeded(PreNow, ledger,
                         StatusText("STAR updated: %d pickup event(s)", added, 0, ""))
             ELSE /\ UNCHANGED <<g_inventory_entries, g_inventory_status, g_star_sync_local_items>>
                  /\ KeepSlots(PreNow)
    /\ n_event' = n_event + 1
    /\ UNCHANGED <<lock, g_star_initialized, overlayVars, mainVars, auth_log, authCalls>>

(* OQuake_STAR_OnKeyPickup for the gold key; stack_keys is OQ_StackKeys() *)
OQuake_STAR_OnKeyPickup ==
    /\ main_pc = "idle"
    /\ g_star_initialized # 0
    /\ lock["inv"] = Unlocked /\ lock["auth"] = Unlocked
    /\ \E stack_keys \in BOOLEAN, seed \in EventSeeds :
          LET seq == IF stack_keys THEN EventSeq(g_inventory_event_seq, seed)
                     ELSE g_inventory_event_seq
              ledger == IF stack_keys
                        THEN OQ_AddInventoryEvent(g_local_inventory_entries, seq, "Gold Key", NoPlus)
                        ELSE OQ_AddInventoryUnlockIfMissing(g_local_inventory_entries,
                                                            PlainName("Gold Key"), NoPlus)
          IN /\ (stack_keys /\ g_inventory_event_seq = 0) \/ seed = 1
             /\ last' = [op |-> "pickup", item |-> "Gold Key", delta |-> NoPlus, stack |-> stack_keys]
             /\ g_inventory_event_seq' = seq
             /\ g_local_inventory_entries' = ledger
             /\ OQ_StartInventorySyncIfNeeded(PreNow, ledger,
                    IF Len(ledger) > Len(g_local_inventory_entries)
                    THEN StatusText("Collected: %s", 0, 0, "")
                    ELSE g_inventory_status)
    /\ n_event' = n_event + 1
    /\ UNCHANGED <<lock, g_inventory_entries, g_star_initialized, overlayVars, mainVars,
                   auth_log, authCalls>>

(* OQuake_STAR_OnItemsChangedEx when the shotgun is gained; stack_weapons  *)
(* is OQ_StackWeapons()                                                    *)
OQuake_STAR_OnItemsChangedEx ==
    /\ main_pc = "idle"
    /\ g_star_initialized # 0
    /\ lock["inv"] = Unlocked /\ lock["auth"] = Unlocked
    /\ \E stack_weapons \in BOOLEAN, seed \in EventSeeds :
          LET seq == IF stack_weapons THEN EventSeq(g_inventory_event_seq, seed)
                     ELSE g_inventory_event_seq
              ledger == IF stack_weapons
                        THEN OQ_AddInventoryEvent(g_local_inventory_entries, seq, "Shotgun", NoPlus)
                        ELSE OQ_AddInventoryUnlockIfMissing(g_local_inventory_entries,
                                                            PlainName("Shotgun"), NoPlus)
          IN /\ (stack_weapons /\ g_inventory_event_seq = 0) \/ seed = 1
             /\ last' = [op |-> "pickup", item |-> "Shotgun", delta |-> NoPlus, stack |-> stack_weapons]
             /\ g_inventory_event_seq' = seq
             /\ g_local_inventory_entries' = ledger
             /\ IF Len(ledger) > Len(g_local_inventory_entries)
                THEN /\ g_inventory_entries' = OQ_AppendLocalToDisplay(g_inventory_entries, ledger)
                     /\ OQ_StartInventorySyncIfNeeded(PreNow, ledger,
                            StatusText("STAR updated: %d new pickup(s)", 1, 0, ""))
                ELSE /\ UNCHANGED <<g_inventory_entries, g_inventory_status, g_star_sync_local_items>>
                     /\ KeepSlots(PreNow)
    /\ n_event' = n_event + 1
    /\ UNCHANGED <<lock, g_star_initialized, overlayVars, mainVars, auth_log, authCalls>>

(* OQ_RefreshOverlayFromClient, lines 907-923: every ledger entry with the  *)
(* name of a copied item is marked                                         *)
MarkAllMatches(ledger, names) ==
    [l \in 1..Len(ledger) |->
        IF ledger[l].name \in names THEN [ledger[l] EXCEPT !.synced = TRUE] ELSE ledger[l]]

(* the first items of the client's cached list, as many as the display takes *)
CachedItems(cache) == SubSeq(cache[1], 1, Min(Len(cache[1]), OQ_MAX_INVENTORY_ITEMS))

(* OQ_RefreshOverlayFromClient: the display list it leaves *)
OverlayDisplay(cache, ledger) ==
    OQ_AppendLocalToDisplay([i \in 1..Len(CachedItems(cache)) |-> RemoteDisplayEntry(CachedItems(cache)[i])],
                            ledger)

(* OQ_RefreshInventoryCache as OQ_InventoryToggle_f calls it when the      *)
(* inventory popup is opened (lines 1023-1029: the selection is reset      *)
(* first); cache is what star_api_get_inventory answers from the client's  *)
(* cache                                                                   *)
OQ_RefreshInventoryCache ==
    /\ main_pc = "idle"
    /\ g_inventory_selected_row' = 0
    /\ g_inventory_scroll_row' = 0
    /\ n_event' = n_event + 1
    /\ lock["inv"] = Unlocked /\ lock["auth"] = Unlocked
    /\ IF in_progress["inv"]
       THEN /\ UNCHANGED <<g_local_inventory_entries, g_inventory_entries, g_inventory_status,
                           g_star_sync_local_items>>
            /\ KeepSlots(PreNow)
       ELSE IF in_progress["auth"]
       THEN /\ g_inventory_status' = StatusText("Authenticating...", 0, 0, "")
            /\ UNCHANGED <<g_local_inventory_entries, g_inventory_entries, g_star_sync_local_items>>
            /\ KeepSlots(PreNow)
       ELSE IF g_star_initialized = 0
       THEN /\ g_inventory_entries' = <<>>
            /\ g_inventory_status' = StatusText("Offline - use STAR BEAMIN", 0, 0, "")
            /\ UNCHANGED <<g_local_inventory_entries, g_star_sync_local_items>>
            /\ KeepSlots(PreNow)
       ELSE \E cache \in {ListAt(l) : l \in Snapshots} \cup {NullList} :
               IF cache = NullList
               THEN /\ UNCHANGED <<g_local_inventory_entries, g_inventory_entries>>
                    /\ OQ_StartInventorySyncIfNeeded(PreNow, g_local_inventory_entries,
                                                     g_inventory_status)
               ELSE LET names == { CachedItems(cache)[i].name : i \in 1..Len(CachedItems(cache)) }
                        display == OverlayDisplay(cache, g_local_inventory_entries)
                        ledger == MarkAllMatches(g_local_inventory_entries, names)
                    IN /\ g_local_inventory_entries' = ledger
                       /\ g_inventory_entries' = display
                       /\ OQ_StartInventorySyncIfNeeded(PreNow, ledger,
                              IF Len(display) = 0
                              THEN StatusText("STAR inventory is empty.", 0, 0, "")
                              ELSE StatusText("Synced (%d items)", Len(display), 0, ""))
    /\ last' = [op |-> "refresh"]
    /\ UNCHANGED <<lock, g_star_initialized, g_inventory_event_seq, g_inventory_active_tab,
                   mainVars, auth_log, authCalls>>

(* OQ_InventoryToggle_f: the popup is opened, with the refresh above, or    *)
(* closed                                                                  *)
OQ_InventoryToggle_f ==
    /\ g_inventory_open' = ~g_inventory_open
    /\ IF ~g_inventory_open
       THEN OQ_RefreshInventoryCache
       ELSE /\ main_pc = "idle"
            /\ n_event' = n_event + 1
            /\ KeepSlots(PreNow)
            /\ UNCHANGED <<lock, g_local_inventory_entries, g_star_sync_local_items,
                           g_inventory_entries, g_inventory_status, g_star_initialized,
                           g_inventory_event_seq, g_inventory_active_tab,
                           g_inventory_selected_row, g_inventory_scroll_row,
                           mainVars, auth_log, authCalls, last>>

(* OQ_ClampSelection(filtered_count): the selected row and the scroll row  *)
(* it leaves                                                               *)
OQ_MAX_OVERLAY_ROWS == 8

OQ_ClampSelection(selected, scroll, filtered_count) ==
    IF filtered_count <= 0 THEN [selected |-> 0, scroll |-> 0]
    ELSE LET s1 == IF selected < 0 THEN 0 ELSE selected
             s2 == IF s1 >= filtered_count THEN filtered_count - 1 ELSE s1
             c1 == IF scroll > s2 THEN s2 ELSE scroll
             c2 == IF s2 >= c1 + OQ_MAX_OVERLAY_ROWS THEN s2 - OQ_MAX_OVERLAY_ROWS + 1 ELSE c1
             c3 == IF c2 < 0 THEN 0 ELSE c2
             max_scroll == IF filtered_count > OQ_MAX_OVERLAY_ROWS
                           THEN filtered_count - OQ_MAX_OVERLAY_ROWS ELSE 0
         IN [selected |-> s2, scroll |-> IF c3 > max_scroll THEN max_scroll ELSE c3]

(* The keys an account may hold, as the client cache lists them for the    *)
(* console command                                                         *)
KeyItems ==
    << [name |-> PlainName("Gold Key"), id |-> "id-key", quantity |-> 1, description |-> NoPlus],
       [name |-> PlainName("Silver Key"), id |-> "id-silver", quantity |-> 1,
        description |-> NoPlus] >>

KeySnapshots == { <<>>, <<KeyItems[1]>>, <<KeyItems[2]>>, KeyItems }

(* "star inventory" (OQuake_STAR_Console_f): OQ_RefreshOverlayFromClient   *)
(* when the game is logged in and no inventory job runs                    *)
star_inventory ==
    /\ main_pc = "idle"
    /\ n_event' = n_event + 1
    /\ lock["inv"] = Unlocked
    /\ IF g_star_initialized = 0 \/ in_progress["inv"]
       THEN /\ UNCHANGED <<g_local_inventory_entries, g_inventory_entries, g_inventory_status>>
            /\ last' = last
       ELSE \E cache \in {ListAt(l) : l \in KeySnapshots} \cup {NullList} :
               IF cache = NullList
               THEN /\ UNCHANGED <<g_local_inventory_entries, g_inventory_entries,
                                   g_inventory_status>>
                    /\ last' = last
               ELSE LET names == { CachedItems(cache)[i].name : i \in 1..Len(CachedItems(cache)) }
                        display == OverlayDisplay(cache, g_local_inventory_entries)
                    IN /\ g_local_inventory_entries' =
                              MarkAllMatches(g_local_inventory_entries, names)
                       /\ g_inventory_entries' = display
                       /\ g_inventory_status' =
                              IF Len(display) = 0
                              THEN StatusText("STAR inventory is empty.", 0, 0, "")
                              ELSE StatusText("Synced (%d items)", Len(display), 0, "")
                       /\ last' = [op |-> "refresh"]
    /\ KeepSlots(PreNow)
    /\ UNCHANGED <<lock, g_star_sync_local_items, g_star_initialized, g_inventory_event_seq,
                   overlayVars, mainVars, auth_log, authCalls>>

(* OQ_InventoryPrevTab_f and OQ_InventoryNextTab_f: the tab they select *)
OQ_InventoryPrevTab_f(tab) ==
    TabOrder[IF TabIndex(tab) = 1 THEN OQ_TAB_COUNT ELSE TabIndex(tab) - 1]

OQ_InventoryNextTab_f(tab) ==
    TabOrder[IF TabIndex(tab) = OQ_TAB_COUNT THEN 1 ELSE TabIndex(tab) + 1]

Keys == {"K_LEFTARROW", "K_RIGHTARROW", "K_UPARROW", "K_DOWNARROW"}

(* OQ_PollInventoryHotkeys while the popup is open and the key is pressed:  *)
(* the selection is clamped to the rows of the tab, then the key is served *)
OQ_PollInventoryHotkeys(key) ==
    /\ main_pc = "idle"
    /\ g_inventory_open
    /\ LET grouped_count == Len(OQ_BuildGroupedRows(g_inventory_entries,
                                    g_local_inventory_entries, g_inventory_active_tab))
           c == OQ_ClampSelection(g_inventory_selected_row, g_inventory_scroll_row,
                                  grouped_count)
           moved == OQ_ClampSelection(IF key = "K_UPARROW" THEN c.selected - 1
                                      ELSE c.selected + 1, c.scroll, grouped_count)
       IN IF key \in {"K_LEFTARROW", "K_RIGHTARROW"}
          THEN /\ g_inventory_active_tab' =
                      IF key = "K_LEFTARROW" THEN OQ_InventoryPrevTab_f(g_inventory_active_tab)
                      ELSE OQ_InventoryNextTab_f(g_inventory_active_tab)
               /\ g_inventory_selected_row' = 0
               /\ g_inventory_scroll_row' = 0
          ELSE /\ g_inventory_active_tab' = g_inventory_active_tab
               /\ g_inventory_selected_row' = moved.selected
               /\ g_inventory_scroll_row' = moved.scroll
    /\ KeepSlots(PreNow)
    /\ UNCHANGED <<lock, g_local_inventory_entries, g_star_sync_local_items,
                   g_inventory_entries, g_inventory_status, g_star_initialized,
                   g_inventory_event_seq, g_inventory_open, mainVars, histVars>>

(* "star beamin": with a user name and password an auth job is started,    *)
(* with an API key and avatar id the game is logged in at once             *)
star_beamin ==
    /\ main_pc = "idle"
    /\ \E runtime_user \in BOOLEAN :
          /\ g_star_initialized # 0 => runtime_user
          /\ IF runtime_user
             THEN /\ lock["auth"] = Unlocked
                  /\ g_star_initialized' = 0
                  /\ IF in_progress["auth"]
                     THEN /\ KeepSlots(PreNow)
                          /\ auth_log' = auth_log
                     ELSE /\ CanCall("auth")
                          /\ star_sync_auth_start(PreNow, <<"a">>, <<"p">>, "OQ_OnAuthDone", NULL)
             ELSE /\ g_star_initialized' = 1
                  /\ KeepSlots(PreNow)
                  /\ auth_log' = auth_log
    /\ last' = [op |-> "beamin"]
    /\ UNCHANGED <<lock, g_local_inventory_entries, g_star_sync_local_items, g_inventory_entries,
                   g_inventory_status, g_inventory_event_seq, overlayVars, mainVars, n_event,
                   authCalls>>

(* OQ_OnAuthDone, called by the pump *)
OQ_OnAuthDone ==
    /\ lock["auth"] = Unlocked
    /\ LET pre == [hr |-> GetResultHr(has_result, "auth"), od |-> on_done, odu |-> on_done_user,
                   th |-> MarkInvoked(threads, "auth")]
       IN IF GetResultRet(has_result, "auth") = 1 /\ res["auth"].success # 0
          THEN /\ g_star_initialized' = 1
               /\ lock["inv"] = Unlocked
               /\ IF ~in_progress["inv"]
                  THEN /\ CanCall("inv")
                       /\ g_inventory_status' = StatusText("Syncing...", 0, 0, "")
                       /\ g_star_sync_local_items' =
                              MirrorOf(g_star_sync_local_items, g_local_inventory_entries)
                       /\ star_sync_inventory_start(pre, "g_star_sync_local_items",
                              Len(g_local_inventory_entries), "Quake", "OQ_OnInventoryDone", NULL)
                  ELSE /\ UNCHANGED <<g_inventory_status, g_star_sync_local_items>>
                       /\ KeepSlots(pre)
          ELSE /\ UNCHANGED <<g_star_initialized, g_inventory_status, g_star_sync_local_items>>
               /\ KeepSlots(pre)
    /\ last' = [op |-> "auth_done"]
    /\ UNCHANGED <<lock, g_local_inventory_entries, g_inventory_entries, g_inventory_event_seq,
                   overlayVars, n_event, auth_log, authCalls>>

(* OQ_OnInventoryDone, called by the pump: get_result, OQ_ProcessInventoryResult, *)
(* free the list, clear_result                                                    *)
OQ_OnInventoryDone ==
    /\ lock["inv"] = Unlocked
    /\ threads' = IF GetResultRet(has_result, "inv") = 1
                  THEN FreeAt(FreeAt(TakeList(MarkInvoked(threads, "inv")), "caller"), "slot")
                  ELSE MarkInvoked(threads, "inv")
    /\ IF GetResultRet(has_result, "inv") = 1
       THEN LET list == res["inv"].list
                result == res["inv"].result
                api_error == IF res["inv"].error_msg = "" THEN NULL ELSE res["inv"].error_msg
                marked == ReconciledLedger(g_local_inventory_entries, g_star_sync_local_items,
                                           list, result)
                display == ReconciledDisplay(g_local_inventory_entries, g_star_sync_local_items,
                                             list, result)
                clamped == OQ_ClampSelection(g_inventory_selected_row, g_inventory_scroll_row,
                               Len(OQ_BuildGroupedRows(display, CompactLedger(marked),
                                                       g_inventory_active_tab)))
            IN /\ g_inventory_entries' = display
               /\ g_local_inventory_entries' = CompactLedger(marked)
               /\ g_inventory_selected_row' = clamped.selected
               /\ g_inventory_scroll_row' = clamped.scroll
               /\ g_inventory_status' =
                      ReconciledStatus(Len(display), Len(CompactLedger(marked)),
                                       RemoteOk(list, result), api_error, g_star_initialized)
               /\ has_result' = GetResultHr(has_result, "inv")
               /\ res' = ClearResultRes(GetResultRes(has_result, res, "inv"))
               /\ last' = [op |-> "reconcile", start |-> g_local_inventory_entries,
                           marked |-> marked, list |-> list, result |-> result,
                           api_error |-> api_error,
                           pushed |-> req["inv"].local_count,
                           on_remote |-> IF cur["inv"] = 0 THEN {}
                                         ELSE threads[cur["inv"]].on_remote]
       ELSE /\ UNCHANGED <<g_inventory_entries, g_local_inventory_entries, g_inventory_status,
                           has_result, res, g_inventory_selected_row, g_inventory_scroll_row>>
            /\ last' = [op |-> "no_result"]
    /\ UNCHANGED <<in_progress, on_done, on_done_user, req, lock, g_star_sync_local_items,
                   g_star_initialized, g_inventory_event_seq, g_inventory_open,
                   g_inventory_active_tab,
                   n_start, n_busy, n_event, cur, auth_log, authCalls>>

(* OQ_OnUseItemDone, called by the pump: the result of the use-item job is *)
(* taken and, when the use succeeded, the overlay is refreshed from the    *)
(* client's cache (OQ_RefreshOverlayFromClient)                            *)
OQ_OnUseItemDone ==
    /\ lock["use"] = Unlocked
    /\ threads' = MarkInvoked(threads, "use")
    /\ has_result' = GetResultHr(has_result, "use")
    /\ res' = GetResultRes(has_result, res, "use")
    /\ IF GetResultRet(has_result, "use") = 1 /\ res["use"].success # 0
       THEN \E cache \in {ListAt(l) : l \in KeySnapshots} \cup {NullList} :
               IF cache = NullList
               THEN /\ UNCHANGED <<g_local_inventory_entries, g_inventory_entries>>
                    /\ g_inventory_status' =
                           IF g_star_initialized = 0
                           THEN StatusText("Offline - use STAR BEAMIN", 0, 0, "")
                           ELSE g_inventory_status
                    /\ last' = last
               ELSE LET names == { CachedItems(cache)[i].name : i \in 1..Len(CachedItems(cache)) }
                        display == OverlayDisplay(cache, g_local_inventory_entries)
                    IN /\ g_local_inventory_entries' =
                              MarkAllMatches(g_local_inventory_entries, names)
                       /\ g_inventory_entries' = display
                       /\ g_inventory_status' =
                              IF Len(display) = 0
                              THEN StatusText("STAR inventory is empty.", 0, 0, "")
                              ELSE StatusText("Synced (%d items)", Len(display), 0, "")
                       /\ last' = [op |-> "refresh"]
       ELSE /\ UNCHANGED <<g_local_inventory_entries, g_inventory_entries, g_inventory_status>>
            /\ last' = last
    /\ UNCHANGED <<in_progress, on_done, on_done_user, req, lock, g_star_sync_local_items,
                   g_star_initialized, g_inventory_event_seq, overlayVars,
                   n_start, n_busy, n_event, cur, auth_log, authCalls>>

(* star_sync_pump: if (X_fn) X_fn(X_ud);  (lines 603-604, 624-625, 645-646, 666-667) *)
star_sync_pump_call(s) ==
    /\ main_pc = CallbackAt(s)
    /\ IF pump_local.fn = "OQ_OnAuthDone" THEN OQ_OnAuthDone
       ELSE IF pump_local.fn = "OQ_OnInventoryDone" THEN OQ_OnInventoryDone
       ELSE IF pump_local.fn = "OQ_OnUseItemDone" THEN OQ_OnUseItemDone
       ELSE ClientCallback(s, pump_local.fn)
    /\ main_pc' = PumpAfter(s)
    /\ pump_local' = NoCallback

(* ---------------------------------------------------------------------- *)
(* A client of the job layer: any start call between two pumps, and, for a *)
(* slot without a registered callback, polling with get_result             *)
(* ---------------------------------------------------------------------- *)
call_auth_start ==
    /\ main_pc = "idle"
    /\ CanCall("auth")
    /\ \E c \in Credentials, r \in ClientRegistrations :
          star_sync_auth_start(PreNow, c.username, c.password, r.fn, r.user)
    /\ UNCHANGED <<lock, gameVars, mainVars, n_event, authCalls, last>>

call_inventory_start ==
    /\ main_pc = "idle"
    /\ CanCall("inv")
    /\ \E r \in ClientRegistrations, src \in {NULL, "Quake"} :
          star_sync_inventory_start(PreNow, NULL, 0, src, r.fn, r.user)
    /\ UNCHANGED <<lock, gameVars, mainVars, n_event, auth_log, authCalls, last>>

call_send_item_start ==
    /\ main_pc = "idle"
    /\ CanCall("send")
    /\ \E q \in SendRequests, r \in ClientRegistrations :
          star_sync_send_item_start(PreNow, q.target, q.item_name, q.quantity, q.to_clan,
                                    q.item_id, r.fn, r.user)
    /\ UNCHANGED <<lock, gameVars, mainVars, n_event, auth_log, authCalls, last>>

call_use_item_start ==
    /\ main_pc = "idle"
    /\ CanCall("use")
    /\ \E q \in UseRequests, r \in ClientRegistrations :
          star_sync_use_item_start(PreNow, q.item_name, q.context, r.fn, r.user)
    /\ UNCHANGED <<lock, gameVars, mainVars, n_event, auth_log, authCalls, last>>

(* star_sync_X_get_result called by a polling client *)
call_get_result(s) ==
    /\ main_pc = "idle"
    /\ on_done[s] = NULL
    /\ lock[s] = Unlocked
    /\ has_result' = GetResultHr(has_result, s)
    /\ res' = GetResultRes(has_result, res, s)
    /\ threads' = GetAndFree(threads, s, has_result[s])
    /\ UNCHANGED <<in_progress, on_done, on_done_user, req, lock, gameVars,
                   mainVars, histVars>>

WorkerStep(j) ==
    \/ auth_thread_copy(j)
    \/ auth_thread_call(j)
    \/ inventory_thread_copy(j)
    \/ inventory_thread_push(j)
    \/ inventory_thread_fetch(j, SmallSnapshots)
    \/ send_item_thread_copy(j)
    \/ send_item_thread_call(j)
    \/ use_item_thread_copy(j)
    \/ use_item_thread_call(j)
    \/ thread_enter(j)
    \/ thread_store(j)

NextSlots ==
    \/ call_auth_start
    \/ call_inventory_start
    \/ call_send_item_start
    \/ call_use_item_start
    \/ \E s \in Slots : call_get_result(s)
    \/ \E s \in Slots : star_sync_pump_take(s)
    \/ \E s \in Slots : star_sync_pump_call(s)
    \/ \E j \in 1..MaxThreads : WorkerStep(j)

SpecSlots == Init /\ [][NextSlots]_vars

(* ---------------------------------------------------------------------- *)
(* The life of the workers: a client of the inventory and use-item slots,  *)
(* the end of the worker threads, and the shutdown of the layer            *)
(* ---------------------------------------------------------------------- *)
(* star_sync_cleanup, called by OQuake_STAR_Cleanup when the game shuts    *)
(* down; the layer is initialised.  The Windows build also deletes the     *)
(* four critical sections here.                                            *)
star_sync_cleanup ==
    /\ main_pc = "idle"
    /\ lock["inv"] = Unlocked
    /\ has_result' = [has_result EXCEPT !["inv"] = FALSE]
    /\ res' = ClearResultRes(res)
    /\ main_pc' = "cleaned"
    /\ last' = [op |-> "cleanup"]
    /\ threads' = FreeAt(threads, "slot")
    /\ UNCHANGED <<in_progress, on_done, on_done_user, req, lock, gameVars,
                   pump_local, n_start, n_busy, n_event, cur, auth_log, authCalls>>

LifeWorkerStep(j) ==
    \/ inventory_thread_copy(j)
    \/ inventory_thread_push(j)
    \/ inventory_thread_fetch(j, SmallSnapshots)
    \/ use_item_thread_copy(j)
    \/ use_item_thread_call(j)
    \/ thread_enter(j)
    \/ thread_store(j)
    \/ thread_exit(j)

NextLife ==
    \/ call_inventory_start
    \/ call_use_item_start
    \/ \E s \in Slots : call_get_result(s)
    \/ \E s \in Slots : star_sync_pump_take(s)
    \/ \E s \in Slots : star_sync_pump_call(s)
    \/ \E j \in 1..MaxThreads : LifeWorkerStep(j)
    \/ star_sync_cleanup

SpecLife == Init /\ [][NextLife]_vars


InventoryWorkerStep(j) ==
    \/ auth_thread_copy(j)
    \/ auth_thread_call(j)
    \/ inventory_thread_copy(j)
    \/ inventory_thread_push(j)
    \/ inventory_thread_fetch(j, Snapshots)
    \/ thread_enter(j)
    \/ thread_store(j)

NextInv ==
    \/ star_beamin
    \/ (n_event < MaxEvents /\ OQuake_STAR_OnStatsChangedEx)
    \/ (n_event < MaxEvents /\ OQuake_STAR_OnKeyPickup)
    \/ (n_event < MaxEvents /\ OQ_InventoryToggle_f)
    \/ \E s \in Slots : star_sync_pump_take(s)
    \/ \E s \in Slots : star_sync_pump_call(s)
    \/ \E j \in 1..MaxThreads : InventoryWorkerStep(j)

SpecInv == Init /\ [][NextInv]_vars

(* ---------------------------------------------------------------------- *)
(* The game while the workers it has started have not yet run: log-ins and *)
(* pickups only                                                            *)
(* ---------------------------------------------------------------------- *)
NextPickups ==
    \/ star_beamin
    \/ (n_event < MaxPickups /\ OQuake_STAR_OnStatsChangedEx)
    \/ (n_event < MaxPickups /\ OQuake_STAR_OnKeyPickup)
    \/ (n_event < MaxPickups /\ OQuake_STAR_OnItemsChangedEx)

SpecPickups == Init /\ [][NextPickups]_vars

(* ---------------------------------------------------------------------- *)
(* Pickups while inventory jobs are in flight: ammo pickups, the inventory *)
(* workers and the pump                                                    *)
(* ---------------------------------------------------------------------- *)
FlightWorkerStep(j) ==
    \/ inventory_thread_copy(j)
    \/ inventory_thread_push(j)
    \/ inventory_thread_fetch(j, SmallSnapshots)
    \/ thread_enter(j)
    \/ thread_store(j)

NextFlight ==
    \/ star_beamin
    \/ (n_event < MaxPickups /\ OQuake_STAR_OnStatsChangedEx)
    \/ (n_event < MaxPickups /\ OQuake_STAR_OnStatsChangedEx_ShellsNails)
    \/ \E s \in Slots : star_sync_pump_take(s)
    \/ \E s \in Slots : star_sync_pump_call(s)
    \/ \E j \in 1..MaxThreads : FlightWorkerStep(j)

SpecFlight == Init /\ [][NextFlight]_vars

(* ---------------------------------------------------------------------- *)
(* The item lists of the inventory jobs: ammo pickups, the inventory       *)
(* workers, the pump and the shutdown of the layer                         *)
(* ---------------------------------------------------------------------- *)
NextHeap ==
    \/ star_beamin
    \/ (n_event < MaxPickups /\ OQuake_STAR_OnStatsChangedEx)
    \/ \E s \in Slots : star_sync_pump_take(s)
    \/ \E s \in Slots : star_sync_pump_call(s)
    \/ \E j \in 1..MaxThreads : FlightWorkerStep(j)
    \/ star_sync_cleanup

SpecHeap == Init /\ [][NextHeap]_vars

(* ---------------------------------------------------------------------- *)
(* Doors opened with a key held on the remote: the door check, the         *)
(* use-item workers and the pump                                           *)
(* ---------------------------------------------------------------------- *)
DoorNames == {NULL, "door1"}
DoorKeys == {NULL, "Gold Key", "Silver Key"}

(* OQuake_STAR_CheckDoorAccess, lines 2188-2198; has_item is the answer of *)
(* star_api_has_item                                                       *)
OQuake_STAR_CheckDoorAccess ==
    /\ main_pc = "idle"
    /\ n_event' = n_event + 1
    /\ \E door_targetname \in DoorNames, required_key_name \in DoorKeys, has_item \in BOOLEAN :
          IF g_star_initialized = 0 \/ required_key_name = NULL \/ ~has_item
          THEN /\ KeepSlots(PreNow)
               /\ last' = [op |-> "door", ret |-> 0, key |-> required_key_name]
          ELSE /\ CanCall("use")
               /\ star_sync_use_item_start(PreNow, required_key_name,
                      IF door_targetname # NULL THEN door_targetname ELSE "quake_door",
                      "OQ_OnUseItemDone", NULL)
               /\ last' = [op |-> "door", ret |-> 1, key |-> required_key_name]
    /\ UNCHANGED <<lock, gameVars, mainVars, auth_log, authCalls>>

DoorWorkerStep(j) ==
    \/ use_item_thread_copy(j)
    \/ use_item_thread_call(j)
    \/ thread_enter(j)
    \/ thread_store(j)

NextDoors ==
    \/ star_beamin
    \/ (n_event < MaxPickups /\ OQuake_STAR_CheckDoorAccess)
    \/ \E s \in Slots : star_sync_pump_take(s)
    \/ \E s \in Slots : star_sync_pump_call(s)
    \/ \E j \in 1..MaxThreads : DoorWorkerStep(j)

SpecDoors == Init /\ [][NextDoors]_vars

(* ---------------------------------------------------------------------- *)
(* The log-in slot in the build without _WIN32: a client of the slot and   *)
(* the auth worker with its pthread calls                                  *)
(* ---------------------------------------------------------------------- *)
PosixAuthStep(j) ==
    \/ auth_thread_copy_posix(j)
    \/ auth_thread_unlock_posix(j)
    \/ auth_thread_call(j)
    \/ thread_enter(j)
    \/ thread_store(j)

NextPosix ==
    \/ call_auth_start
    \/ \E s \in Slots : call_get_result(s)
    \/ \E s \in Slots : star_sync_pump_take(s)
    \/ \E s \in Slots : star_sync_pump_call(s)
    \/ \E j \in 1..MaxThreads : PosixAuthStep(j)

SpecPosix == Init /\ [][NextPosix]_vars

(* ---------------------------------------------------------------------- *)
(* Jobs that run to their end: a client of the inventory and send-item     *)
(* slots, and workers that the scheduler lets run.  pthread_create and     *)
(* CreateThread may fail; the start calls do not look at what they return, *)
(* so the failed creation is a step of its own: the thread proc never runs *)
(* ---------------------------------------------------------------------- *)
thread_create_fails(j) ==
    /\ j \in 1..Len(threads)
    /\ threads[j].pc = "copy"
    /\ threads' = [threads EXCEPT ![j].pc = "failed", ![j].alive = FALSE]
    /\ UNCHANGED <<in_progress, has_result, on_done, on_done_user, req, res, lock, gameVars,
                   mainVars, histVars>>

RunWorkerStep(j) ==
    \/ inventory_thread_copy(j)
    \/ inventory_thread_push(j)
    \/ inventory_thread_fetch(j, SmallSnapshots)
    \/ send_item_thread_copy(j)
    \/ send_item_thread_call(j)
    \/ thread_enter(j)
    \/ thread_store(j)

NextRun ==
    \/ call_inventory_start
    \/ call_send_item_start
    \/ \E s \in Slots : call_get_result(s)
    \/ \E s \in Slots : star_sync_pump_take(s)
    \/ \E s \in Slots : star_sync_pump_call(s)
    \/ \E j \in 1..MaxThreads : RunWorkerStep(j)
    \/ \E j \in 1..MaxThreads : thread_create_fails(j)

(* a created thread is scheduled, and the remote calls it makes return *)
SpecRun == Init /\ [][NextRun]_vars /\ \A j \in 1..MaxThreads : WF_vars(RunWorkerStep(j))

(* OQuake_STAR_DrawInventoryOverlay, lines 2769-2785, while the popup is    *)
(* open: the rows are built, the selection is clamped, the rows are drawn. *)
(* last keeps the rows and what they were built from; calls counts the     *)
(* calls in a row that saw the same display list, ledger and tab.          *)
OQuake_STAR_DrawInventoryOverlay ==
    /\ main_pc = "idle"
    /\ g_inventory_open
    /\ LET rows == OQ_BuildGroupedRows(g_inventory_entries, g_local_inventory_entries,
                                       g_inventory_active_tab)
           c == OQ_ClampSelection(g_inventory_selected_row, g_inventory_scroll_row, Len(rows))
           same == /\ last.op = "draw"
                   /\ last.display = g_inventory_entries
                   /\ last.ledger = g_local_inventory_entries
                   /\ last.tab = g_inventory_active_tab
       IN /\ g_inventory_selected_row' = c.selected
          /\ g_inventory_scroll_row' = c.scroll
          /\ last' = [op |-> "draw", rows |-> rows, display |-> g_inventory_entries,
                      ledger |-> g_local_inventory_entries, tab |-> g_inventory_active_tab,
                      calls |-> IF same THEN Min(last.calls + 1, 2) ELSE 1]
    /\ KeepSlots(PreNow)
    /\ UNCHANGED <<lock, g_local_inventory_entries, g_star_sync_local_items,
                   g_inventory_entries, g_inventory_status, g_star_initialized,
                   g_inventory_event_seq, g_inventory_open, g_inventory_active_tab, mainVars,
                   n_start, n_busy, n_event, cur, auth_log, authCalls>>

(* ---------------------------------------------------------------------- *)
(* The inventory popup: it is opened and closed, its keys are polled, the  *)
(* console lists the inventory, keys are picked up                         *)
(* ---------------------------------------------------------------------- *)
NextOverlay ==
    \/ star_beamin
    \/ (n_event < MaxPickups /\ OQ_InventoryToggle_f)
    \/ (n_event < MaxPickups /\ star_inventory)
    \/ (n_event < MaxPickups /\ OQuake_STAR_OnKeyPickup)
    \/ \E key \in Keys : OQ_PollInventoryHotkeys(key)
    \/ OQuake_STAR_DrawInventoryOverlay

SpecOverlay == Init /\ [][NextOverlay]_vars

(* ---------------------------------------------------------------------- *)
(* Properties of the job slots                                             *)
(* ---------------------------------------------------------------------- *)
ThreadsOf(s) == { j \in 1..Len(threads) : threads[j].slot = s }

(* C1: on each of the four slots, a start call made while the slot's       *)
(* in_progress flag is set changes nothing of the slot: the stored request *)
(* arguments, the callback and its user context, has_result, in_progress   *)
(* and the stored result stay as they are, and no worker thread is created.*)
C1_BusyStartChangesNothing ==
    [][\A s \in Slots :
          (n_start'[s] # n_start[s] /\ in_progress[s]) =>
              /\ req'[s] = req[s]
              /\ on_done'[s] = on_done[s]
              /\ on_done_user'[s] = on_done_user[s]
              /\ has_result'[s] = has_result[s]
              /\ in_progress'[s] = in_progress[s]
              /\ res'[s] = res[s]
              /\ threads' = threads]_vars

(* a start call on the inventory slot has been made while its job was in progress *)
C1_Witness ==
    /\ n_busy["inv"] >= 1
    /\ in_progress["inv"]
    /\ Cardinality(ThreadsOf("inv")) = 1

(* C2: when star_sync_inventory_start is called twice and the second call  *)
(* finds the first job still in progress, there is exactly one inventory   *)
(* worker thread, its registered callback is never invoked more than once, *)
(* and it has been invoked once as soon as the pump has looked at the      *)
(* inventory slot after the worker returned.                               *)
C2_TwoStartsOneWorkerOneCallback ==
    (n_start["inv"] = 2 /\ n_busy["inv"] = 1) =>
        /\ Cardinality(ThreadsOf("inv")) = 1
        /\ \A j \in ThreadsOf("inv") :
              threads[j].fn # NULL =>
                  /\ threads[j].invoked <= 1
                  /\ threads[j].seen => threads[j].invoked = 1

(* two inventory starts, the second dropped, and the callback has run once *)
C2_Witness ==
    /\ n_start["inv"] = 2
    /\ n_busy["inv"] = 1
    /\ main_pc = "idle"
    /\ \E j \in ThreadsOf("inv") : threads[j].fn # NULL /\ threads[j].invoked = 1

(* C3: whenever star_sync_pump is about to call the callback it took from  *)
(* a slot, that slot's in_progress flag is false, whatever the worker      *)
(* threads have done in between.                                           *)
C3_NoCallbackWhileInProgress ==
    \A s \in Slots : main_pc = CallbackAt(s) => ~in_progress[s]

(* the pump calls the inventory callback while the send-item job is running *)
C3_Witness ==
    /\ main_pc = CallbackAt("inv")
    /\ pump_local.fn # NULL
    /\ in_progress["send"]

(* C4: every accepted start with a non-NULL callback gets exactly one      *)
(* invocation of that callback for its job: never more than one, and one   *)
(* once the pump has looked at the slot after the worker returned or once  *)
(* a later start on the slot has been accepted (after which the callback   *)
(* registered by the earlier start is gone).                               *)
C4_ExactlyOneInvocationPerAcceptedStart ==
    \A j \in 1..Len(threads) :
        threads[j].fn # NULL =>
            /\ threads[j].invoked <= 1
            /\ (threads[j].seen \/ cur[threads[j].slot] # j) => threads[j].invoked = 1

(* C5: when star_sync_auth_start is called twice with different            *)
(* credentials and the second call finds the first job still running,      *)
(* star_api_authenticate is called at most once, exactly once when the     *)
(* worker has returned, and with the username and password of the first    *)
(* call.                                                                   *)
C5_OnlyFirstCredentialsSent ==
    ( /\ Len(auth_log) = 2
      /\ ~auth_log[1].busy
      /\ auth_log[2].busy
      /\ auth_log[1].username # auth_log[2].username
      /\ auth_log[1].password # auth_log[2].password ) =>
        /\ Len(authCalls) <= 1
        /\ (\E j \in ThreadsOf("auth") : threads[j].pc = "done") => Len(authCalls) = 1
        /\ \A k \in 1..Len(authCalls) :
              /\ authCalls[k].username = auth_log[1].username
              /\ authCalls[k].password = auth_log[1].password

(* ---------------------------------------------------------------------- *)
(* Properties of the reconciliation                                        *)
(* ---------------------------------------------------------------------- *)
(* the names of the items of a fetched list *)
SnapshotNames(list) ==
    IF list = NullList THEN {} ELSE { list[1][i].name : i \in 1..Len(list[1]) }

(* how often a name occurs in the display list *)
Occurrences(display, name) == Cardinality({ j \in 1..Len(display) : display[j].name = name })

(* the state is the one OQ_ProcessInventoryResult has just left *)
Reconciled == last.op = "reconcile"

(* C6: after the reconciliation of a fetch that succeeded (the worker's      *)
(* star_api_get_inventory handed over a list), every entry that was in the *)
(* ledger when the reconciliation began and whose name is the name of an   *)
(* item of the fetched list was marked synced and is not in the ledger     *)
(* that the compaction leaves.                                             *)
C6_SnapshotEntriesSyncedAndCompacted ==
    (Reconciled /\ last.list # NullList) =>
        \A i \in 1..Len(last.start) :
            last.start[i].name \in SnapshotNames(last.list) =>
                /\ last.marked[i].synced
                /\ ~InLedger(g_local_inventory_entries, last.start[i].name)

(* C7: after the reconciliation, a name that is both the name of an item of *)
(* the fetched list and the name of an unsynced entry of the ledger occurs *)
(* exactly once in the display list.                                       *)
C7_NoDoubleCounting ==
    Reconciled =>
        \A i \in 1..Len(last.start) :
            (~last.start[i].synced /\ last.start[i].name \in SnapshotNames(last.list)) =>
                Occurrences(g_inventory_entries, last.start[i].name) = 1

(* C8: an entry's synced flag is true after the job only if its name is in  *)
(* the fetched list or the push phase got the entry onto the remote (the   *)
(* remote already had it, or the add_item queued for it was flushed with   *)
(* success); any other entry that was unsynced is still unsynced.          *)
C8_SyncedOnlyIfOnRemote ==
    Reconciled =>
        \A i \in 1..Len(last.start) :
            (~last.start[i].synced /\ last.marked[i].synced) =>
                \/ last.start[i].name \in SnapshotNames(last.list)
                \/ i \in last.on_remote

(* C9: an entry leaves the ledger only in the compaction of                 *)
(* OQ_ProcessInventoryResult, and only if its synced flag was true when    *)
(* the compaction began; an entry whose flag is false stays.               *)
C9_RemovedOnlyBySyncedCompaction ==
    [][\A i \in 1..Len(g_local_inventory_entries) :
          ~InLedger(g_local_inventory_entries', g_local_inventory_entries[i].name) =>
              /\ last'.op = "reconcile"
              /\ last'.start = g_local_inventory_entries
              /\ last'.marked[i].synced]_vars

(* a reconciliation has removed one entry of the ledger and kept another *)
C9_Witness ==
    /\ Reconciled
    /\ Len(last.start) = 2
    /\ Len(g_local_inventory_entries) = 1
    /\ \E i \in 1..2 : last.marked[i].synced /\ ~InLedger(g_local_inventory_entries, last.start[i].name)
    /\ \E i \in 1..2 : ~last.marked[i].synced /\ InLedger(g_local_inventory_entries, last.start[i].name)

(* C10 (Scenario A): the ledger holds the single unsynced Shells entry, a   *)
(* refresh is started from it, the remote fetch succeeds and returns the   *)
(* empty list.  Then the display list is the one local-only Shells entry,  *)
(* the entry is still in the ledger, and the status reports synced with 1  *)
(* pending.                                                                *)
C10_ScenarioA ==
    (/\ Reconciled
     /\ Len(last.start) = 1
     /\ last.start[1].name.base = "Shells"
     /\ ~last.start[1].synced
     /\ last.pushed = 1
     /\ last.list = ListAt(<<>>))
    => /\ g_inventory_entries = <<LocalDisplayEntry(last.start[1])>>
       /\ g_local_inventory_entries = last.start
       /\ g_inventory_status = StatusText("Synced (%d items), %d pending", 1, 1, "")

(* the item "Shells" with quantity 25 as the remote service lists it *)
RemoteShells == CHOOSE it \in RemoteItems : it.name = PlainName("Shells")

(* C11 (Scenario B): the ledger holds the single unsynced Shells entry that *)
(* Scenario A leaves, the next refresh is started from it and succeeds, its *)
(* remote fetch returning the one item "Shells" with quantity 25.  Then the ledger *)
(* is empty (pending count 0), the display list is exactly the one remote  *)
(* entry "Shells" with quantity 25, and the status is the plain synced one.*)
C11_ScenarioB ==
    (/\ Reconciled
     /\ Len(last.start) = 1
     /\ last.start[1].name.base = "Shells"
     /\ ~last.start[1].synced
     /\ last.pushed = 1
     /\ last.result = STAR_API_SUCCESS
     /\ last.list = ListAt(<<RemoteShells>>))
    => /\ g_local_inventory_entries = <<>>
       /\ g_inventory_entries = <<RemoteDisplayEntry(RemoteShells)>>
       /\ g_inventory_status = StatusText("Synced (%d items)", 1, 0, "")

GroupedRows(tab) ==
    OQ_BuildGroupedRows(g_inventory_entries, g_local_inventory_entries, tab)

RowsLabelled(tab, base) ==
    {r \in 1..Len(GroupedRows(tab)) : GroupedRows(tab)[r].label = PlainName(base)}

RowValue(tab, base) ==
    IF RowsLabelled(tab, base) = {} THEN 0
    ELSE GroupedRows(tab)[CHOOSE r \in RowsLabelled(tab, base) : TRUE].value

(* C13: n pickups of a stackable (SUM mode) item with the deltas d1..dn    *)
(* produce exactly one grouped row for the item whose value is d1+...+dn:  *)
(* every shells pickup leaves exactly one Shells row, and the row's value  *)
(* is the value before the pickup plus the delta of the pickup.            *)
C13_SumOfDeltas ==
    [][OQuake_STAR_OnStatsChangedEx =>
          /\ Cardinality(RowsLabelled(OQ_TAB_AMMO, "Shells")') = 1
          /\ RowValue(OQ_TAB_AMMO, "Shells")' =
                RowValue(OQ_TAB_AMMO, "Shells") + last'.delta]_vars

(* C14: for an item grouped in COUNT mode, any number n >= 1 of pickups    *)
(* produces exactly one grouped row whose value is 1: every shotgun pickup *)
(* that finds room in the ledger leaves exactly one Shotgun row, a COUNT   *)
(* row with the value 1.                                                   *)
C14_CountRowIsOne ==
    [][(/\ OQuake_STAR_OnItemsChangedEx
        /\ Len(g_local_inventory_entries) < OQ_MAX_INVENTORY_ITEMS) =>
          /\ Cardinality(RowsLabelled(OQ_TAB_WEAPONS, "Shotgun")') = 1
          /\ \A r \in RowsLabelled(OQ_TAB_WEAPONS, "Shotgun")' :
                /\ GroupedRows(OQ_TAB_WEAPONS)'[r].mode = OQ_GROUP_MODE_COUNT
                /\ GroupedRows(OQ_TAB_WEAPONS)'[r].value = 1]_vars

(* a step of one of the pickup handlers *)
PickupStep ==
    \/ OQuake_STAR_OnStatsChangedEx
    \/ OQuake_STAR_OnKeyPickup
    \/ OQuake_STAR_OnItemsChangedEx

(* C15: every pickup passed to OQ_AddInventoryEvent, and every pickup      *)
(* passed to OQ_AddInventoryUnlockIfMissing for a name that is not in the  *)
(* ledger, adds an entry for that pickup to the ledger, however many       *)
(* entries the ledger holds.                                               *)
C15_NoPickupDiscarded ==
    [][(/\ PickupStep
        /\ last'.stack \/ ~InLedger(g_local_inventory_entries, PlainName(last'.item))) =>
          /\ Len(g_local_inventory_entries') = Len(g_local_inventory_entries) + 1
          /\ g_local_inventory_entries'[Len(g_local_inventory_entries')].name.base = last'.item
          /\ \A i \in 1..Len(g_local_inventory_entries) :
                g_local_inventory_entries'[i] = g_local_inventory_entries[i]]_vars

(* the workers of a slot that have not ended *)
AliveOf(s) == {j \in ThreadsOf(s) : threads[j].alive}

(* C16: for each slot at most one worker thread is alive at any time; a    *)
(* new worker is spawned only after the previous worker of the slot has    *)
(* ended.                                                                  *)
C16_OneWorkerAlivePerSlot ==
    \A s \in Slots : Cardinality(AliveOf(s)) <= 1

(* C17: when star_sync_cleanup has returned, every worker ever spawned has *)
(* ended, so no worker touches the state or the mutex of a slot after the  *)
(* cleanup.                                                                *)
C17_NoWorkerAfterCleanup ==
    main_pc = "cleaned" => \A j \in 1..Len(threads) : ~threads[j].alive

(* C18: in every reachable state of every slot, in_progress and has_result *)
(* are never both true, and the slot holds at most one undelivered result: *)
(* while has_result is set every worker of the slot has stored its result  *)
(* and left its final critical section, so no second result is in the      *)
(* making.                                                                 *)
C18_NeverRunningAndDone ==
    \A s \in Slots :
        /\ ~(in_progress[s] /\ has_result[s])
        /\ has_result[s] => \A j \in ThreadsOf(s) : threads[j].pc = "done"

(* the result of a second job of a slot is stored *)
C18_Witness ==
    \E s \in Slots : has_result[s] /\ Cardinality(ThreadsOf(s)) = 2

(* C19: after a job completes, the first get_result returns 1 and clears   *)
(* has_result; every later get_result returns 0 (and changes nothing)      *)
(* until another job completes: has_result is set only by a worker that    *)
(* stores its result.                                                      *)
C19_ResultDeliveredOnce ==
    [][\A s \in Slots :
          /\ (call_get_result(s) /\ has_result[s]) =>
                /\ GetResultRet(has_result, s) = 1
                /\ ~has_result'[s]
          /\ (call_get_result(s) /\ ~has_result[s]) =>
                /\ GetResultRet(has_result, s) = 0
                /\ has_result' = has_result /\ res' = res
          /\ (~has_result[s] /\ has_result'[s]) =>
                \E j \in ThreadsOf(s) : threads[j].pc = "store" /\ threads'[j].pc = "done"]_vars

(* a polling client has taken the result of the use-item job with          *)
(* get_result, and no new job has been started                             *)
C19_Witness ==
    /\ cur["use"] # 0
    /\ threads[cur["use"]].fn = NULL
    /\ threads[cur["use"]].pc = "done"
    /\ ~has_result["use"]
    /\ ~in_progress["use"]

(* C20: star_sync_pump never holds a slot's mutex while that slot's        *)
(* callback executes, so a callback that calls get_result, in_progress,    *)
(* clear_result or start acquires the mutex without deadlock: while the    *)
(* main thread is at a callback, every mutex is free or held by a worker   *)
(* that is inside its final critical section.                              *)
C20_CallbackRunsUnlocked ==
    \A s \in Slots :
        main_pc = CallbackAt(s) =>
            \A t \in Slots :
                \/ lock[t] = Unlocked
                \/ (lock[t] \in 1..Len(threads) /\ threads[lock[t]].pc = "store")

(* a callback invoked by the pump has called get_result on its own slot *)
C20_Witness ==
    \E s \in Slots :
        /\ cur[s] # 0
        /\ threads[cur[s]].fn = "on_done_get"
        /\ threads[cur[s]].invoked = 1
        /\ ~has_result[s]
        /\ ~in_progress[s]

(* a step of a worker thread: a thread proc moves on *)
WorkerMoves ==
    \E j \in 1..Len(threads) :
        threads'[j].pc # threads[j].pc \/ threads'[j].alive # threads[j].alive

(* C21: the completion callbacks of all four slots are invoked only by the *)
(* thread that calls star_sync_pump, during a star_sync_pump call; a       *)
(* worker thread never invokes a completion callback: every step in which  *)
(* a callback is invoked is the pump's call of the callback it has taken   *)
(* from that slot, and no thread proc moves in it.                         *)
C21_CallbacksOnlyFromPump ==
    [][\A j \in 1..Len(threads) :
          threads'[j].invoked # threads[j].invoked =>
              /\ main_pc = CallbackAt(threads[j].slot)
              /\ main_pc' = PumpAfter(threads[j].slot)
              /\ pump_local.fn = threads[j].fn
              /\ ~WorkerMoves]_vars

(* the pump has invoked the callback of an inventory job whose worker has  *)
(* returned                                                                *)
C21_Witness ==
    \E j \in 1..Len(threads) :
        /\ threads[j].invoked = 1
        /\ threads[j].pc = "done"
        /\ threads[j].slot = "inv"

(* C22: the pending ledger (entries, synced flags, count) and the display  *)
(* list are read and written only by the main thread: no step of a worker  *)
(* thread changes either of them (the worker works on the array the game   *)
(* filled for it, g_star_sync_local_items).                                *)
C22_WorkersLeaveLedgerAndDisplay ==
    [][WorkerMoves => UNCHANGED <<g_local_inventory_entries, g_inventory_entries>>]_vars

(* an inventory worker has marked an entry of its array as synced while the *)
(* ledger entry it was copied from is still unsynced                       *)
C22_Witness ==
    \E j \in 1..Len(threads) :
        /\ threads[j].slot = "inv"
        /\ threads[j].pc \in {"fetch", "enter"}
        /\ \E i \in 1..Len(g_local_inventory_entries) :
              /\ ~g_local_inventory_entries[i].synced
              /\ g_star_sync_local_items[i].synced = 1

(* the message of a failed flush of the queued add_item calls, line 761 *)
FlushFailed == "flush add_item jobs failed"

(* C23: when a push call fails but get_inventory succeeds, the job is not  *)
(* fatal: the fetched snapshot is delivered as a successful fetch and the  *)
(* reconciliation builds the display list from it; the push failure shows  *)
(* only as a status or error text.                                         *)
C23_PartialPushFailureNotFatal ==
    (/\ Reconciled
     /\ last.api_error = FlushFailed
     /\ last.list # NullList)
    => /\ last.result = STAR_API_SUCCESS
       /\ \A i \in 1..Min(Len(last.list[1]), OQ_MAX_INVENTORY_ITEMS) :
             \E k \in 1..Len(g_inventory_entries) :
                 /\ g_inventory_entries[k].name = last.list[1][i].name
                 /\ g_inventory_entries[k].id # ""

(* a step in which an inventory worker leaves its final critical section *)
InventoryStores(j) ==
    /\ threads[j].slot = "inv"
    /\ threads[j].pc = "store"
    /\ threads'[j].pc = "done"

(* C24: in the inventory worker get_inventory is called exactly once per   *)
(* job even when a push call (the flush of the queued add_item calls)      *)
(* failed, and the first push failure message is recorded in the job's     *)
(* result: the push phase is always followed by the fetch, the final       *)
(* critical section is entered only from the fetch, and a worker whose     *)
(* flush failed stores the failure message.                                *)
C24_FetchOnceAndPushErrorRecorded ==
    [][\A j \in 1..Len(threads) :
          /\ (threads[j].slot = "inv" /\ threads[j].pc = "call" /\ threads'[j].pc # "call")
                => threads'[j].pc = "fetch"
          /\ (threads[j].slot = "inv" /\ threads[j].pc # "enter" /\ threads'[j].pc = "enter")
                => threads[j].pc = "fetch"
          /\ (InventoryStores(j) /\ ~threads[j].loc.flush_ok)
                => /\ res'["inv"].error_msg = FlushFailed
                   /\ has_result'["inv"]]_vars

(* a worker whose flush failed and whose fetch succeeded has stored its result *)
C24_Witness ==
    /\ has_result["inv"]
    /\ res["inv"].error_msg = FlushFailed
    /\ res["inv"].list # NullList

(* C25: the status chosen at the end of the reconciliation follows the     *)
(* fixed priority: not authenticated gives the offline message whatever    *)
(* the fetch outcome and the counts; otherwise a failed fetch with items   *)
(* gives error-showing-cached, a failed fetch with none gives error-empty, *)
(* a successful fetch with pending entries gives synced-with-N-pending and *)
(* a successful fetch without gives synced (or the empty message when      *)
(* there is nothing to show).                                              *)
C25_StatusPriority ==
    Reconciled =>
        LET count == Len(g_inventory_entries)
            pending == Len(g_local_inventory_entries)
            ok == RemoteOk(last.list, last.result)
            text == g_inventory_status.text
        IN IF g_star_initialized = 0 THEN text = "Offline - use STAR BEAMIN"
           ELSE IF ~ok /\ count > 0
                THEN text \in {"STAR API error: %s (showing local: %d items)",
                               "STAR API unavailable; showing local inventory (%d items)"}
           ELSE IF ~ok THEN text \in {"STAR API error: %s", "Inventory is empty."}
           ELSE IF pending > 0
                THEN g_inventory_status = StatusText("Synced (%d items), %d pending", count, pending, "")
           ELSE IF count > 0 THEN g_inventory_status = StatusText("Synced (%d items)", count, 0, "")
           ELSE text = "STAR inventory is empty."

(* C26: the client-cache refresh (OQ_RefreshOverlayFromClient, run when    *)
(* the popup is opened) issues no push and does not modify the pending     *)
(* ledger: it removes no entry and changes no synced flag.                 *)
C26_CacheRefreshKeepsLedger ==
    [][OQ_RefreshInventoryCache =>
          g_local_inventory_entries' = g_local_inventory_entries]_vars

(* C27: after every rebuild of the display list (reconciliation, refresh   *)
(* from the client cache, append on pickup), with n the number of grouped  *)
(* rows of the active tab: if n = 0 the selected row and the scroll row    *)
(* are 0, otherwise 0 <= selected < n, 0 <= scroll <= selected <           *)
(* scroll + OQ_MAX_OVERLAY_ROWS and scroll <= max(0, n - OQ_MAX_OVERLAY_ROWS) *)
Rebuilt == last.op \in {"reconcile", "refresh", "pickup"}

SelectionInRange(n) ==
    IF n = 0 THEN g_inventory_selected_row = 0 /\ g_inventory_scroll_row = 0
    ELSE /\ 0 <= g_inventory_selected_row /\ g_inventory_selected_row < n
         /\ 0 <= g_inventory_scroll_row /\ g_inventory_scroll_row <= g_inventory_selected_row
         /\ g_inventory_selected_row < g_inventory_scroll_row + OQ_MAX_OVERLAY_ROWS
         /\ g_inventory_scroll_row <=
                (IF n > OQ_MAX_OVERLAY_ROWS THEN n - OQ_MAX_OVERLAY_ROWS ELSE 0)

C27_SelectionClampedAfterRebuild ==
    Rebuilt => SelectionInRange(Len(GroupedRows(g_inventory_active_tab)))

(* C28: OQ_BuildGroupedRows is a pure function of the display list, the    *)
(* ledger and the active tab: a call changes none of them, and a call that *)
(* follows another with the three unchanged returns the same rows          *)
DrawCall == last'.op = "draw" /\ last' # last

C29_AcceptedStartCompletes ==
    \A s \in Slots : in_progress[s] ~> (~in_progress[s] /\ has_result[s])

(* C30: from the moment a start is accepted on a slot until the worker of  *)
(* that start has stored its result, get_result on the slot returns 0 and  *)
(* the pump is not at a callback of the slot; so a result that an earlier  *)
(* job left in the slot is never handed out as the result of the later job *)
C30_NoStaleResultAfterStart ==
    \A s \in Slots :
        (cur[s] # 0 /\ threads[cur[s]].pc # "done") =>
            /\ GetResultRet(has_result, s) = 0
            /\ main_pc # CallbackAt(s)

(* a second job runs on a slot of a polling client whose first job is done *)
(* and whose pump has not looked at the slot since                         *)
C30_Witness ==
    \E s \in Slots :
        /\ cur[s] # 0 /\ threads[cur[s]].pc \in {"enter", "store"}
        /\ \E j \in ThreadsOf(s) :
              j # cur[s] /\ threads[j].pc = "done" /\ threads[j].fn = NULL /\ ~threads[j].seen

(* C31: a ledger entry that a pickup appended while an inventory job was   *)
(* in flight is marked synced (and so removed) by the handling of that     *)
(* job's result only if its name is in the snapshot the job fetched        *)
C31_InFlightEntryKept ==
    Reconciled =>
        \A l \in (last.pushed + 1)..Len(last.start) :
            last.marked[l].synced =>
                last.start[l].name \in RemoteItemNames(last.list, last.result)

(* C32: over any sequence of pickups, inventory jobs, completed log-ins    *)
(* and pump calls, a stacking add_item is queued at most once for each     *)
(* stack-mode ledger entry: no two inventory workers have pushed an entry  *)
(* of the same name                                                        *)
C32_StackEntryPushedOnce ==
    \A j, k \in ThreadsOf("inv") : j # k => threads[j].pushed \cap threads[k].pushed = {}

(* C33: every read or write of a slot's in_progress, has_result, result,   *)
(* callback registration and stored request arguments is made by a thread  *)
(* that holds the slot's mutex: a worker that copies the request or stores *)
(* its result holds it, a worker that clears in_progress has just taken    *)
(* it, and the main thread finds it free and takes it                      *)
WorkerCopies(j) == threads[j].pc = "copy" /\ threads'[j].pc \in {"unlock", "call"}
WorkerEnters(j) == threads[j].pc = "enter" /\ threads'[j].pc = "store"
WorkerStores(j) == threads[j].pc = "store" /\ threads'[j].pc = "done"

SlotStateChanges(s) ==
    \/ in_progress'[s] # in_progress[s]
    \/ has_result'[s] # has_result[s]
    \/ res'[s] # res[s]
    \/ on_done'[s] # on_done[s]
    \/ on_done_user'[s] # on_done_user[s]
    \/ req'[s] # req[s]

C33_SlotStateUnderMutex ==
    [][/\ \A j \in 1..Len(threads) :
             /\ WorkerCopies(j) => lock[threads[j].slot] = j
             /\ WorkerEnters(j) => lock'[threads[j].slot] = j
             /\ WorkerStores(j) => lock[threads[j].slot] = j
       /\ \A s \in Slots :
             (SlotStateChanges(s) /\ ~WorkerMoves) => lock[s] = Unlocked]_vars

(* C34: a slot mutex is unlocked only by the thread that holds it: every   *)
(* unlock a worker performs follows that worker's own lock                 *)
WorkerUnlocks(j) ==
    \/ threads[j].pc = "unlock" /\ threads'[j].pc = "call"
    \/ WorkerStores(j)

C34_UnlockOnlyByHolder ==
    [][\A j \in 1..Len(threads) : WorkerUnlocks(j) => lock[threads[j].slot] = j]_vars

(* C35: from the accepted inventory start until its worker has stored the  *)
(* result, no step of the main thread writes g_star_sync_local_items or    *)
(* reads it back (the copy-back of OQ_ProcessInventoryResult): the worker  *)
(* is the only one to touch the array                                      *)
InventoryInFlight == cur["inv"] # 0 /\ threads[cur["inv"]].pc # "done"

C35_MirrorLeftToWorker ==
    [][(InventoryInFlight /\ ~WorkerMoves) =>
          /\ g_star_sync_local_items' = g_star_sync_local_items
          /\ ~(last'.op = "reconcile" /\ last' # last)]_vars

(* a pickup has been recorded while the inventory job is in flight and the *)
(* worker has marked the entry it pushed                                   *)
C35_Witness ==
    /\ InventoryInFlight
    /\ last.op = "pickup"
    /\ Len(g_local_inventory_entries) > req["inv"].local_count
    /\ g_star_sync_local_items[1].synced = 1
    /\ ~g_local_inventory_entries[1].synced

(* C36: no worker holds a slot's mutex while it performs a remote-service  *)
(* call: a thread proc that is about to call the remote service (the       *)
(* authentication, the add_item push, get_inventory, the send, the use)    *)
(* does not hold its slot's mutex, and whoever holds a slot's mutex is in  *)
(* the final section of a thread proc, past every remote call, so the main *)
(* thread's start, pump, get_result, poll and in_progress wait for nothing *)
(* but that section                                                        *)
InRemoteCall(j) == threads[j].pc \in {"call", "fetch"}

C36_NoMutexDuringRemoteCall ==
    /\ \A j \in 1..Len(threads) : InRemoteCall(j) => lock[threads[j].slot] # j
    /\ \A s \in Slots : lock[s] # Unlocked => threads[lock[s]].pc = "store"

(* an inventory worker is inside get_inventory while the main thread has   *)
(* been through star_sync_inventory_start, which returned at once          *)
C36_Witness ==
    \E j \in ThreadsOf("inv") :
        /\ threads[j].pc = "fetch"
        /\ lock["inv"] = Unlocked
        /\ n_busy["inv"] > 0

(* C37: the compaction of the ledger leaves exactly the entries whose      *)
(* synced flag is false, in their original relative order, each with its   *)
(* fields and its flag, and the count becomes the number of such entries:  *)
(* the k-th entry of the ledger after the reconcile is the k-th unsynced   *)
(* entry of the marked ledger                                              *)
UnsyncedAt(marked) == { l \in 1..Len(marked) : ~marked[l].synced }

NthUnsynced(marked, k) ==
    CHOOSE l \in UnsyncedAt(marked) : Cardinality({ x \in UnsyncedAt(marked) : x <= l }) = k

C37_CompactionKeepsUnsynced ==
    [][(last'.op = "reconcile" /\ last' # last) =>
          /\ Len(g_local_inventory_entries') = Cardinality(UnsyncedAt(last'.marked))
          /\ \A k \in 1..Len(g_local_inventory_entries') :
                 g_local_inventory_entries'[k] = last'.marked[NthUnsynced(last'.marked, k)]]_vars

(* a reconcile has dropped a synced entry and moved the unsynced entry     *)
(* behind it down to the first place                                       *)
C37_Witness ==
    /\ last.op = "reconcile"
    /\ Len(last.marked) = 2
    /\ last.marked[1].synced
    /\ ~last.marked[2].synced
    /\ g_local_inventory_entries = <<last.marked[2]>>

(* C38: every time OQuake_STAR_CheckDoorAccess returns 1 (the door opens   *)
(* with a key held on the remote) a use-item job for the required key is   *)
(* started: the call starts a new use-item worker and the slot holds the   *)
(* key's name                                                              *)
DoorOpened == n_event' # n_event /\ last'.op = "door" /\ last'.ret = 1

C38_DoorUseStarted ==
    [][DoorOpened =>
          /\ Len(threads') = Len(threads) + 1
          /\ threads'[Len(threads')].slot = "use"
          /\ req'["use"].item_name_buf = last'.key]_vars

(* C39: every item list that star_api_get_inventory returns inside an      *)
(* inventory worker is freed exactly once, across start, worker            *)
(* completion, get_result, clear_result and cleanup: it is never freed     *)
(* twice; no pointer to it is kept once it is freed, so it is not used     *)
(* after the free; while it is not freed exactly one pointer holds it (the *)
(* thread proc's local, g_inv_list or the caller of get_result), so it is  *)
(* never lost; and once the layer is shut down and the workers have        *)
(* returned no list is left that was not freed                             *)
WorkersReturned == \A j \in 1..Len(threads) : threads[j].pc = "done"

C39_ListFreedOnce ==
    /\ \A j \in 1..Len(threads) :
          /\ threads[j].heap # "freed_twice"
          /\ threads[j].heap = "live" => Cardinality(threads[j].refs) = 1
          /\ threads[j].heap \in {"none", "freed"} => threads[j].refs = {}
    /\ (main_pc = "cleaned" /\ WorkersReturned) =>
          \A j \in 1..Len(threads) : threads[j].heap \in {"none", "freed"}

(* C40: for every ledger entry created by OQ_AddInventoryEvent(prefix,     *)
(* ...), whatever value the event sequence counter has, the push phase     *)
(* strips the generated sequence suffix: the add_item it queues carries    *)
(* the bare prefix as its item name                                        *)
C40_PushedNameIsPrefix ==
    \A j \in ThreadsOf("inv") :
        threads[j].pc \in {"fetch", "enter", "store"} =>
            \A k \in 1..Len(threads[j].loc.queued) :
                threads[j].loc.queued[k].name.suf = NoSuffix

====
